---------------------------- MODULE Spec2Model ----------------------------
(***************************************************************************)
(* A model of runsd: the Name Mapper (resolveCloudRunHost), the rewriting  *)
(* reverse proxy (Director + authenticatingTransport), the DNS hijack      *)
(* server (handleLocal / recurse) and the resolver file the supervisor     *)
(* writes at bootstrap.                                                    *)
(*                                                                         *)
(* Go strings are modelled as sequences of one-character strings, so that  *)
(* strings.ToLower, TrimSuffix, Count, SplitN, ... are computed character  *)
(* by character, the way the code computes them.                           *)
(***************************************************************************)
EXTENDS Integers, Sequences, FiniteSets, TLC

VARIABLES
    internalDomain,   \* reverseProxy.internalDomain / resolveCloudRunHost arg
    currentRegion,    \* reverseProxy.currentRegion  / resolveCloudRunHost arg
    projectHash,      \* reverseProxy.projectHash    / resolveCloudRunHost arg
    hostname,         \* the hostname handed to resolveCloudRunHost
    mapped,           \* the (string, error) pair resolveCloudRunHost returned
    envIDToken,       \* os.Getenv("CLOUD_RUN_ID_TOKEN")
    reqs,             \* the proxy's requests in flight: position, inbound and outbound request
    sent,             \* per request, what was handed to the upstream transport (tr.RoundTrip)
    dnsHijack,        \* the dnsHijack struct: domain, nameserver, dots, serveIPv6
    dnsPc,            \* position of the DNS server's handler for the query in flight
    dnsMsg,           \* the query in flight
    dnsFwd,           \* what the handler sent to the upstream nameserver for it
    dnsUp,            \* what the exchange with the upstream nameserver returned
    dnsReplies,       \* what the handler wrote to the client for it (w.WriteMsg)
    sup,              \* main: its position, its flags and locals, its exit code
    resolvFile,       \* the lines of the resolver file (flResolvConf)
    listeners,        \* the DNS and proxy listeners main has started, and their state
    trace,            \* what main has done to the file, the listeners and the subprocess
    child             \* the subprocess: its position and the name lookup it is making

cfgVars == <<internalDomain, currentRegion, projectHash>>
mapperVars == <<hostname, mapped>>
proxyVars == <<envIDToken, reqs, sent>>
dnsVars == <<dnsHijack, dnsPc, dnsMsg, dnsFwd, dnsUp, dnsReplies>>
bootVars == <<sup, resolvFile, listeners, trace, child>>

vars == <<internalDomain, currentRegion, projectHash, hostname, mapped,
          envIDToken, reqs, sent,
          dnsHijack, dnsPc, dnsMsg, dnsFwd, dnsUp, dnsReplies,
          sup, resolvFile, listeners, trace, child>>

---------------------------------------------------------------------------
(* Bounds of the model.                                                    *)

\* how many service-side labels an enumerated hostname may carry
MaxPreLabels == 2

\* how many requests the proxy handles (concurrently)
MaxReqs == 2

\* how many questions a DNS message may carry
MaxQuestions == 2

\* how many signals reach the supervisor
MaxSignals == 2

---------------------------------------------------------------------------
(* Go's strings package, on sequences of characters.                       *)

LowerSeq == <<"a", "b", "c", "d", "e", "f", "g", "h", "i", "j", "k", "l", "m", "n", "o", "p", "q", "r", "s", "t", "u", "v", "w", "x", "y", "z">>
UpperSeq == <<"A", "B", "C", "D", "E", "F", "G", "H", "I", "J", "K", "L", "M", "N", "O", "P", "Q", "R", "S", "T", "U", "V", "W", "X", "Y", "Z">>
DigitSeq == <<"0", "1", "2", "3", "4", "5", "6", "7", "8", "9">>

Range(s) == {s[i] : i \in 1..Len(s)}

LowerChars == Range(LowerSeq)
DigitChars == Range(DigitSeq)

ToLowerChar(c) ==
    IF \E i \in 1..Len(UpperSeq) : UpperSeq[i] = c
    THEN LowerSeq[CHOOSE i \in 1..Len(UpperSeq) : UpperSeq[i] = c]
    ELSE c

\* strings.ToLower
ToLower(s) == [i \in 1..Len(s) |-> ToLowerChar(s[i])]

\* strings.Contains(s, ".")
ContainsDot(s) == \E i \in 1..Len(s) : s[i] = "."

\* strings.Count(s, ".")
CountDots(s) == Cardinality({i \in 1..Len(s) : s[i] = "."})

\* strings.HasSuffix
HasSuffix(s, suf) ==
    /\ Len(suf) <= Len(s)
    /\ SubSeq(s, Len(s) - Len(suf) + 1, Len(s)) = suf

\* strings.TrimSuffix
TrimSuffix(s, suf) ==
    IF HasSuffix(s, suf) THEN SubSeq(s, 1, Len(s) - Len(suf)) ELSE s

\* strings.Trim(s, "."): every leading and every trailing dot is cut
TrimDots(s) ==
    LET nd == {i \in 1..Len(s) : s[i] # "."}
    IN  IF nd = {} THEN <<>>
        ELSE SubSeq(s, CHOOSE i \in nd : \A j \in nd : i <= j,
                       CHOOSE i \in nd : \A j \in nd : j <= i)

\* index of the first dot of s, 0 when there is none
FirstDot(s) ==
    IF ContainsDot(s)
    THEN CHOOSE i \in 1..Len(s) : s[i] = "." /\ \A j \in 1..(i - 1) : s[j] # "."
    ELSE 0

\* strings.SplitN(s, ".", 2)
SplitN2(s) ==
    IF FirstDot(s) = 0 THEN <<s>>
    ELSE <<SubSeq(s, 1, FirstDot(s) - 1), SubSeq(s, FirstDot(s) + 1, Len(s))>>

\* index of the first / last occurrence of character c in s, 0 when absent
IndexByte(s, c) ==
    IF \E i \in 1..Len(s) : s[i] = c
    THEN CHOOSE i \in 1..Len(s) : s[i] = c /\ \A j \in 1..(i - 1) : s[j] # c
    ELSE 0

LastIndexByte(s, c) ==
    IF \E i \in 1..Len(s) : s[i] = c
    THEN CHOOSE i \in 1..Len(s) : s[i] = c /\ \A j \in (i + 1)..Len(s) : s[j] # c
    ELSE 0

RECURSIVE Split(_, _)
\* strings.Split(s, c) for a separator c of one character
Split(s, c) ==
    IF IndexByte(s, c) = 0 THEN <<s>>
    ELSE <<SubSeq(s, 1, IndexByte(s, c) - 1)>>
         \o Split(SubSeq(s, IndexByte(s, c) + 1, Len(s)), c)

SpaceChars == {" ", "\n", "\t", "\r"}

\* strings.TrimSpace
TrimSpace(s) ==
    LET ns == {i \in 1..Len(s) : s[i] \notin SpaceChars}
    IN  IF ns = {} THEN <<>>
        ELSE SubSeq(s, CHOOSE i \in ns : \A j \in ns : i <= j,
                       CHOOSE i \in ns : \A j \in ns : j <= i)

\* net.SplitHostPort: (host, port, err)
SplitHostPort(hostport) ==
    LET i    == LastIndexByte(hostport, ":")
        end  == IndexByte(hostport, "]")
        fail == [ok |-> FALSE, host |-> <<>>, port |-> <<>>]
        port == SubSeq(hostport, i + 1, Len(hostport))
    IN  IF i = 0 THEN fail                                   \* missing port in address
        ELSE IF hostport[1] = "["
        THEN IF end = 0 THEN fail                            \* missing ']' in address
             ELSE IF end + 1 # i THEN fail                   \* missing port / too many colons
             ELSE IF IndexByte(SubSeq(hostport, 2, Len(hostport)), "[") # 0 THEN fail
             ELSE IF IndexByte(SubSeq(hostport, end + 1, Len(hostport)), "]") # 0 THEN fail
             ELSE [ok |-> TRUE, host |-> SubSeq(hostport, 2, end - 1), port |-> port]
        ELSE IF IndexByte(SubSeq(hostport, 1, i - 1), ":") # 0 THEN fail   \* too many colons
             ELSE IF IndexByte(hostport, "[") # 0 THEN fail
             ELSE IF IndexByte(hostport, "]") # 0 THEN fail
             ELSE [ok |-> TRUE, host |-> SubSeq(hostport, 1, i - 1), port |-> port]

---------------------------------------------------------------------------
(* The region catalog.                                                     *)

cloudRunRegionCodes ==
       (<<"a", "s", "i", "a", "-", "e", "a", "s", "t", "1">> :> <<"d", "e">>)
    @@ (<<"a", "s", "i", "a", "-", "e", "a", "s", "t", "2">> :> <<"d", "f">>)
    @@ (<<"a", "s", "i", "a", "-", "n", "o", "r", "t", "h", "e", "a", "s", "t", "1">> :> <<"a", "n">>)
    @@ (<<"a", "s", "i", "a", "-", "n", "o", "r", "t", "h", "e", "a", "s", "t", "2">> :> <<"d", "t">>)
    @@ (<<"a", "s", "i", "a", "-", "n", "o", "r", "t", "h", "e", "a", "s", "t", "3">> :> <<"d", "u">>)
    @@ (<<"a", "s", "i", "a", "-", "s", "o", "u", "t", "h", "1">> :> <<"e", "l">>)
    @@ (<<"a", "s", "i", "a", "-", "s", "o", "u", "t", "h", "2">> :> <<"e", "m">>)
    @@ (<<"a", "s", "i", "a", "-", "s", "o", "u", "t", "h", "e", "a", "s", "t", "1">> :> <<"a", "s">>)
    @@ (<<"a", "s", "i", "a", "-", "s", "o", "u", "t", "h", "e", "a", "s", "t", "2">> :> <<"e", "t">>)
    @@ (<<"a", "u", "s", "t", "r", "a", "l", "i", "a", "-", "s", "o", "u", "t", "h", "e", "a", "s", "t", "1">> :> <<"t", "s">>)
    @@ (<<"a", "u", "s", "t", "r", "a", "l", "i", "a", "-", "s", "o", "u", "t", "h", "e", "a", "s", "t", "2">> :> <<"k", "m">>)
    @@ (<<"e", "u", "r", "o", "p", "e", "-", "c", "e", "n", "t", "r", "a", "l", "2">> :> <<"l", "m">>)
    @@ (<<"e", "u", "r", "o", "p", "e", "-", "n", "o", "r", "t", "h", "1">> :> <<"l", "z">>)
    @@ (<<"e", "u", "r", "o", "p", "e", "-", "w", "e", "s", "t", "1">> :> <<"e", "w">>)
    @@ (<<"e", "u", "r", "o", "p", "e", "-", "w", "e", "s", "t", "2">> :> <<"n", "w">>)
    @@ (<<"e", "u", "r", "o", "p", "e", "-", "w", "e", "s", "t", "3">> :> <<"e", "y">>)
    @@ (<<"e", "u", "r", "o", "p", "e", "-", "w", "e", "s", "t", "4">> :> <<"e", "z">>)
    @@ (<<"e", "u", "r", "o", "p", "e", "-", "w", "e", "s", "t", "6">> :> <<"o", "a">>)
    @@ (<<"n", "o", "r", "t", "h", "a", "m", "e", "r", "i", "c", "a", "-", "n", "o", "r", "t", "h", "e", "a", "s", "t", "1">> :> <<"n", "n">>)
    @@ (<<"s", "o", "u", "t", "h", "a", "m", "e", "r", "i", "c", "a", "-", "e", "a", "s", "t", "1">> :> <<"r", "j">>)
    @@ (<<"u", "s", "-", "c", "e", "n", "t", "r", "a", "l", "1">> :> <<"u", "c">>)
    @@ (<<"u", "s", "-", "e", "a", "s", "t", "1">> :> <<"u", "e">>)
    @@ (<<"u", "s", "-", "e", "a", "s", "t", "4">> :> <<"u", "k">>)
    @@ (<<"u", "s", "-", "w", "e", "s", "t", "1">> :> <<"u", "w">>)
    @@ (<<"u", "s", "-", "w", "e", "s", "t", "2">> :> <<"w", "l">>)
    @@ (<<"u", "s", "-", "w", "e", "s", "t", "3">> :> <<"w", "m">>)
    @@ (<<"u", "s", "-", "w", "e", "s", "t", "4">> :> <<"w", "n">>)

\* _, ok := cloudRunRegionCodes[region]
RegionKnown(region) == region \in DOMAIN cloudRunRegionCodes

---------------------------------------------------------------------------
(* The Name Mapper.                                                        *)

NoResult == [ok |-> FALSE, host |-> <<>>, err |-> "not called"]

MapOk(h) == [ok |-> TRUE, host |-> h, err |-> ""]
MapErr(e) == [ok |-> FALSE, host |-> <<>>, err |-> e]

\* (mutant) the arguments of Sprintf in the order of the parameters
mkCloudRunHost_ParameterOrder(svc, regionCode, hash) ==
    svc \o <<"-">> \o regionCode \o <<"-">> \o hash \o <<".", "a", ".", "r", "u", "n", ".", "a", "p", "p">>

\* fmt.Sprintf("%s-%s-%s.a.run.app", svc, projectHash, regionCode)
mkCloudRunHost(svc, regionCode, hash) ==
    svc \o <<"-">> \o hash \o <<"-">> \o regionCode \o <<".", "a", ".", "r", "u", "n", ".", "a", "p", "p">>

\* (mutant) the hostname is not lower-cased
resolveCloudRunHost_NoToLower(domain, host, curRegion, hash) ==
    LET trimmed == TrimSuffix(host, <<".">> \o TrimDots(domain))
        splits  == SplitN2(trimmed)
    IN  IF ~ContainsDot(host)
        THEN IF ~RegionKnown(curRegion)
             THEN MapErr("region is not handled")
             ELSE MapOk(mkCloudRunHost(host, cloudRunRegionCodes[curRegion], hash))
        ELSE IF CountDots(trimmed) # 1
             THEN MapErr("found too many dots in hostname")
             ELSE IF ~RegionKnown(ToLower(splits[2]))
                  THEN MapErr("region is not handled (inferred from hostname)")
                  ELSE MapOk(mkCloudRunHost(splits[1],
                                            cloudRunRegionCodes[ToLower(splits[2])], hash))

\* (mutant) an unknown region in the hostname falls back to the current region
resolveCloudRunHost_FallbackRegion(domain, host, curRegion, hash) ==
    LET lowered == ToLower(host)
        trimmed == TrimSuffix(lowered, <<".">> \o TrimDots(domain))
        splits  == SplitN2(trimmed)
        region  == IF Len(splits) = 2 /\ RegionKnown(splits[2]) THEN splits[2] ELSE curRegion
    IN  IF ~RegionKnown(region)
        THEN MapErr("region is not handled")
        ELSE IF ~ContainsDot(lowered)
        THEN MapOk(mkCloudRunHost(lowered, cloudRunRegionCodes[region], hash))
        ELSE IF CountDots(trimmed) # 1
        THEN MapErr("found too many dots in hostname")
        ELSE MapOk(mkCloudRunHost(splits[1], cloudRunRegionCodes[region], hash))

resolveCloudRunHost(domain, host, curRegion, hash) ==
    LET lowered == ToLower(host)
        trimmed == TrimSuffix(lowered, <<".">> \o TrimDots(domain))
        splits  == SplitN2(trimmed)
    IN  IF ~ContainsDot(lowered)
        THEN IF ~RegionKnown(curRegion)
             THEN MapErr("region is not handled")
             ELSE MapOk(mkCloudRunHost(lowered, cloudRunRegionCodes[curRegion], hash))
        ELSE IF CountDots(trimmed) # 1
             THEN MapErr("found too many dots in hostname")
             ELSE IF ~RegionKnown(splits[2])
                  THEN MapErr("region is not handled (inferred from hostname)")
                  ELSE MapOk(mkCloudRunHost(splits[1], cloudRunRegionCodes[splits[2]], hash))

---------------------------------------------------------------------------
(* The DNS hijack server: a dns.ServeMux with handleLocal on the internal   *)
(* zone and recurse on ".".                                                 *)

\* dns.Fqdn
Fqdn(name) ==
    IF Len(name) > 0 /\ name[Len(name)] = "." THEN name ELSE name \o <<".">>

\* dns.CanonicalName
CanonicalName(name) == ToLower(Fqdn(name))

\* ServeMux.match for the two patterns of handler(): the handler of the zone
\* when a label-aligned suffix of the canonical name is the zone, else the
\* handler of "."
muxMatch(d, name) ==
    LET q == CanonicalName(name)
        z == CanonicalName(d.domain)
    IN  IF q = z \/ HasSuffix(q, <<".">> \o z) \/ z = <<".">>
        THEN "handleLocal"
        ELSE "recurse"

NoServer == [domain |-> <<>>, nameserver |-> <<>>, dots |-> 0, serveIPv6 |-> FALSE]

NoMsg == [id |-> 0, rd |-> FALSE, question |-> <<>>]

DnsUnused ==
    /\ dnsHijack = NoServer
    /\ dnsPc = "off"
    /\ dnsMsg = NoMsg
    /\ dnsFwd = <<>>
    /\ dnsUp = <<>>
    /\ dnsReplies = <<>>

\* Msg.SetReply: the header of a reply, with the first question of the request
SetReply(msg) ==
    [id |-> msg.id, response |-> TRUE, rd |-> msg.rd, ra |-> FALSE, aa |-> FALSE,
     rcode |-> "NOERROR", question |-> <<msg.question[1]>>, answer |-> <<>>]

\* nxdomain: an authoritative NXDOMAIN
nxdomain(msg) == [SetReply(msg) EXCEPT !.aa = TRUE, !.rcode = "NXDOMAIN"]

\* servfail: a SERVFAIL
servfail(msg) == [SetReply(msg) EXCEPT !.rcode = "SERVFAIL"]

ipv4Loopback == <<"1", "2", "7", ".", "0", ".", "0", ".", "1">>
IPv6loopback == <<":", ":", "1">>

RECURSIVE handleLocalCheck_NoDotsCheck(_, _, _)
\* handleLocal without the comparison of the dot count with d.dots
handleLocalCheck_NoDotsCheck(d, qs, k) ==
    IF k > Len(qs) THEN "answer"
    ELSE LET q     == qs[k]
             parts == SplitN2(TrimSuffix(q.name, <<".">> \o d.domain))
         IN  IF q.qtype \notin {"A", "AAAA"} THEN "recurse"
             ELSE IF Len(parts) < 2 THEN "return"
             ELSE IF ~RegionKnown(parts[2]) THEN "nxdomain"
             ELSE handleLocalCheck_NoDotsCheck(d, qs, k + 1)

RECURSIVE handleLocalCheck_NoRegionCheck(_, _, _)
\* handleLocal without the lookup of the region in the catalog
handleLocalCheck_NoRegionCheck(d, qs, k) ==
    IF k > Len(qs) THEN "answer"
    ELSE LET q     == qs[k]
             parts == SplitN2(TrimSuffix(q.name, <<".">> \o d.domain))
         IN  IF q.qtype \notin {"A", "AAAA"} THEN "recurse"
             ELSE IF CountDots(q.name) # d.dots THEN "nxdomain"
             ELSE IF Len(parts) < 2 THEN "return"
             ELSE handleLocalCheck_NoRegionCheck(d, qs, k + 1)

RECURSIVE handleLocalCheck_DotsBeforeType(_, _, _)
\* handleLocal with the dot count compared before the type is looked at
handleLocalCheck_DotsBeforeType(d, qs, k) ==
    IF k > Len(qs) THEN "answer"
    ELSE LET q     == qs[k]
             parts == SplitN2(TrimSuffix(q.name, <<".">> \o d.domain))
         IN  IF CountDots(q.name) # d.dots THEN "nxdomain"
             ELSE IF q.qtype \notin {"A", "AAAA"} THEN "recurse"
             ELSE IF Len(parts) < 2 THEN "return"
             ELSE IF ~RegionKnown(parts[2]) THEN "nxdomain"
             ELSE handleLocalCheck_DotsBeforeType(d, qs, k + 1)

RECURSIVE handleLocalCheck(_, _, _)
\* the first loop of handleLocal, from question k on: what the handler does
handleLocalCheck(d, qs, k) ==
    IF k > Len(qs) THEN "answer"
    ELSE LET q     == qs[k]
             parts == SplitN2(TrimSuffix(q.name, <<".">> \o d.domain))
         IN  IF q.qtype \notin {"A", "AAAA"} THEN "recurse"
             ELSE IF CountDots(q.name) # d.dots THEN "nxdomain"
             ELSE IF Len(parts) < 2 THEN "return"
             ELSE IF ~RegionKnown(parts[2]) THEN "nxdomain"
             ELSE handleLocalCheck(d, qs, k + 1)

RECURSIVE localRecords(_, _, _)
\* the second loop of handleLocal: the records appended to r.Answer
localRecords(d, qs, k) ==
    IF k > Len(qs) THEN <<>>
    ELSE LET q == qs[k]
             rr == IF q.qtype = "A"
                   THEN <<[name |-> q.name, rrtype |-> "A", class |-> "IN",
                           ttl |-> 10, data |-> ipv4Loopback]>>
                   ELSE IF q.qtype = "AAAA" /\ d.serveIPv6
                   THEN <<[name |-> q.name, rrtype |-> "AAAA", class |-> "IN",
                           ttl |-> 10, data |-> IPv6loopback]>>
                   ELSE <<>>
         IN  rr \o localRecords(d, qs, k + 1)

\* the reply handleLocal writes when every question passed the checks
localAnswer(d, msg) ==
    [SetReply(msg) EXCEPT !.aa = TRUE, !.answer = localRecords(d, msg.question, 1)]

\* what the handler chosen by the mux does with msg
serveDecision(d, msg) ==
    IF muxMatch(d, msg.question[1].name) = "handleLocal"
    THEN handleLocalCheck(d, msg.question, 1)
    ELSE "recurse"

\* The upstream nameserver: the names it knows and their addresses
UpstreamDB ==
       (<<"e", "x", "a", "m", "p", "l", "e", ".", "c", "o", "m", ".">> :> <<"9", "3", ".", "1", "8", "4", ".", "2", "1", "6", ".", "3", "4">>)
    @@ (<<"m", "e", "t", "a", "d", "a", "t", "a", ".", "g", "o", "o", "g", "l", "e", ".", "i", "n", "t", "e", "r", "n", "a", "l", ".">> :> <<"1", "6", "9", ".", "2", "5", "4", ".", "1", "6", "9", ".", "2", "5", "4">>)

\* the response of the upstream nameserver to msg
UpstreamResponse(msg) ==
    LET q   == msg.question[1]
        key == CanonicalName(q.name)
    IN  [id |-> msg.id, response |-> TRUE, rd |-> msg.rd, ra |-> TRUE, aa |-> FALSE,
         rcode |-> IF key \in DOMAIN UpstreamDB THEN "NOERROR" ELSE "NXDOMAIN",
         question |-> msg.question,
         answer |-> IF key \in DOMAIN UpstreamDB /\ q.qtype = "A"
                    THEN <<[name |-> q.name, rrtype |-> "A", class |-> "IN",
                            ttl |-> 300, data |-> UpstreamDB[key]]>>
                    ELSE <<>>]

\* a listener hands a query to the mux
Accept(msg) ==
    /\ dnsPc \in {"idle", "done"}
    /\ dnsMsg' = msg
    /\ dnsPc' = "serving"
    /\ dnsFwd' = <<>>
    /\ dnsUp' = <<>>
    /\ dnsReplies' = <<>>
    /\ UNCHANGED dnsHijack

\* mux.ServeDNS: handleLocal up to its reply, or up to the exchange with the
\* upstream nameserver that recurse starts
ServeDNS ==
    /\ dnsPc = "serving"
    /\ LET what == serveDecision(dnsHijack, dnsMsg)
       IN  /\ dnsPc' = IF what = "recurse" THEN "exchange" ELSE "done"
           /\ dnsFwd' = IF what = "recurse" THEN <<dnsMsg>> ELSE dnsFwd
           /\ dnsReplies' =
                 IF what = "answer" THEN <<localAnswer(dnsHijack, dnsMsg)>>
                 ELSE IF what = "nxdomain" THEN <<nxdomain(dnsMsg)>>
                 ELSE dnsReplies
    /\ UNCHANGED <<dnsHijack, dnsMsg, dnsUp>>

\* the reply header set anew from the query, with recursion available
recurseWrites_SetReply(msg, r) ==
    [r EXCEPT !.id = msg.id, !.rd = msg.rd, !.rcode = "NOERROR",
              !.question = <<msg.question[1]>>, !.ra = TRUE]

\* recurse: what is written to the client when the exchange returned r, the
\* response as it came
recurseWrites(msg, r) == r

\* recurse: the exchange returned the upstream's response
ExchangeReply ==
    /\ dnsPc = "exchange"
    /\ dnsUp' = <<[err |-> FALSE, r |-> UpstreamResponse(dnsFwd[1])]>>
    /\ dnsReplies' = Append(dnsReplies, recurseWrites(dnsMsg, dnsUp'[1].r))
    /\ dnsPc' = "done"
    /\ UNCHANGED <<dnsHijack, dnsMsg, dnsFwd>>

\* recurse: the exchange failed
ExchangeError ==
    /\ dnsPc = "exchange"
    /\ dnsUp' = <<[err |-> TRUE, r |-> NoMsg]>>
    /\ dnsReplies' = Append(dnsReplies, servfail(dnsMsg))
    /\ dnsPc' = "done"
    /\ UNCHANGED <<dnsHijack, dnsMsg, dnsFwd>>

---------------------------------------------------------------------------
(* The resolver file: what main reads from it and writes to it, and what    *)
(* the stub resolver of the subprocess makes of it.                         *)

defaultInternalDomain == <<"r", "u", "n", ".", "i", "n", "t", "e", "r", "n", "a", "l", ".">>
defaultNdots == 4

RECURSIVE Itoa(_)
\* fmt's %d for a natural number
Itoa(n) ==
    IF n < 10 THEN <<DigitSeq[n + 1]>>
    ELSE Itoa(n \div 10) \o <<DigitSeq[(n % 10) + 1]>>

RECURSIVE Atoi(_)
\* the number a sequence of digits denotes
Atoi(s) ==
    IF s = <<>> THEN 0
    ELSE 10 * Atoi(SubSeq(s, 1, Len(s) - 1))
         + ((CHOOSE i \in 1..10 : DigitSeq[i] = s[Len(s)]) - 1)

IsNumber(s) == s # <<>> /\ \A i \in 1..Len(s) : s[i] \in DigitChars

RECURSIVE JoinWith(_, _)
\* strings.Join(elems, sep)
JoinWith(elems, sep) ==
    IF Len(elems) = 0 THEN <<>>
    ELSE IF Len(elems) = 1 THEN elems[1]
    ELSE elems[1] \o sep \o JoinWith(Tail(elems), sep)

RECURSIVE Fields(_)
\* the space-separated fields of a line
Fields(line) ==
    IF line = <<>> THEN <<>>
    ELSE IF line[1] = " " THEN Fields(Tail(line))
    ELSE LET i == IndexByte(line, " ")
         IN  IF i = 0 THEN <<line>>
             ELSE <<SubSeq(line, 1, i - 1)>> \o Fields(SubSeq(line, i + 1, Len(line)))

HasPrefix(s, pre) == Len(s) >= Len(pre) /\ SubSeq(s, 1, Len(pre)) = pre

\* the zone of the region alone
cloudRunZones_RegionZoneOnly(region, domain) == <<region \o <<".">> \o domain>>

\* cloudRunZones: the search domains of the platform, the zone of the
\* region first
cloudRunZones(region, domain) == <<region \o <<".">> \o domain, domain>>

\* the lines without the options line
configureResolvConf_NoOptions(nameservers, searchDomains, ndots) ==
       [i \in 1..Len(nameservers) |-> <<"n", "a", "m", "e", "s", "e", "r", "v", "e", "r", " ">> \o nameservers[i]]
    \o <<<<"s", "e", "a", "r", "c", "h", " ">> \o JoinWith(searchDomains, <<" ">>)>>

\* (mutant) the options line written with the default instead of the flag
configureResolvConf_DefaultNdots(nameservers, searchDomains, ndots) ==
       [i \in 1..Len(nameservers) |-> <<"n", "a", "m", "e", "s", "e", "r", "v", "e", "r", " ">> \o nameservers[i]]
    \o <<<<"s", "e", "a", "r", "c", "h", " ">> \o JoinWith(searchDomains, <<" ">>)>>
    \o <<<<"o", "p", "t", "i", "o", "n", "s", " ", "n", "d", "o", "t", "s", ":", "4">>>>

\* configureResolvConf: the lines the truncated file is given
configureResolvConf(nameservers, searchDomains, ndots) ==
       [i \in 1..Len(nameservers) |-> <<"n", "a", "m", "e", "s", "e", "r", "v", "e", "r", " ">> \o nameservers[i]]
    \o <<<<"s", "e", "a", "r", "c", "h", " ">> \o JoinWith(searchDomains, <<" ">>)>>
    \o <<<<"o", "p", "t", "i", "o", "n", "s", " ", "n", "d", "o", "t", "s", ":">> \o Itoa(ndots)>>

NoConfig == [servers |-> <<>>, search |-> <<>>, ndots |-> 1]

RECURSIVE ndotsOption(_, _)
\* the last ndots:N among the options of a line, else the value so far
ndotsOption(opts, sofar) ==
    IF opts = <<>> THEN sofar
    ELSE LET v == SubSeq(opts[1], 7, Len(opts[1]))
         IN  ndotsOption(Tail(opts),
                 IF HasPrefix(opts[1], <<"n", "d", "o", "t", "s", ":">>) /\ IsNumber(v) THEN Atoi(v) ELSE sofar)

\* one line of a resolver file, applied to the configuration read so far
readLine(conf, line) ==
    LET f == Fields(line)
    IN  IF Len(f) < 2 THEN conf
        ELSE IF f[1] = <<"n", "a", "m", "e", "s", "e", "r", "v", "e", "r">> THEN [conf EXCEPT !.servers = Append(@, f[2])]
        ELSE IF f[1] = <<"s", "e", "a", "r", "c", "h">> THEN [conf EXCEPT !.search = Tail(f)]
        ELSE IF f[1] = <<"o", "p", "t", "i", "o", "n", "s">> THEN [conf EXCEPT !.ndots = ndotsOption(Tail(f), @)]
        ELSE conf

RECURSIVE readLines(_, _)
readLines(conf, lines) ==
    IF lines = <<>> THEN conf ELSE readLines(readLine(conf, lines[1]), Tail(lines))

\* dns.ClientConfigFromFile: servers, search list and ndots of a resolver file
ClientConfigFromFile(lines) == readLines(NoConfig, lines)

\* main before it runs: its flags (-ndots, -gcp_region, -nameserver,
\* -gcp_project_hash, -skip_dns_hijack, -skip_http_proxy), what it finds
\* (PORT=80, positional arguments, a resolvable -user, an IPv6 stack) and
\* its locals
NoSup == [pc |-> "off", exitCode |-> 0,
          flNdots |-> 0, flRegion |-> <<>>, flNameserver |-> <<>>,
          flProjectHash |-> <<>>, flSkipDNSServer |-> FALSE,
          flSkipHTTPProxyServer |-> FALSE,
          port80 |-> FALSE, posArgs |-> FALSE, userOK |-> FALSE, ipv6OK |-> FALSE,
          rc |-> NoConfig, useNameserver |-> <<>>, onCloudRun |-> FALSE,
          signals |-> <<>>, sigCh |-> <<>>, forwarder |-> "off",
          envProjectHash |-> <<>>, askedAdmin |-> FALSE,
          answer |-> [err |-> FALSE, url |-> <<>>], panicked |-> FALSE,
          lookup |-> <<>>]

\* the subprocess: its position, the lookup it makes, and how it ended
NoChild == [pc |-> "off", name |-> <<>>, names |-> <<>>, idx |-> 0, qtype |-> "",
            addrs |-> <<>>, log |-> <<>>, ended |-> "", code |-> 0,
            signals |-> <<>>]

\* the listeners of the DNS server and of the proxy
DNSListeners(v6) ==
    {"dns-udp4", "dns-tcp4"} \cup (IF v6 THEN {"dns-udp6", "dns-tcp6"} ELSE {})
ProxyListeners(v6) ==
    {"proxy4"} \cup (IF v6 THEN {"proxy6"} ELSE {})
ListenerIds == DNSListeners(TRUE) \cup ProxyListeners(TRUE)

NoListeners == [l \in ListenerIds |-> "none"]

BootUnused ==
    /\ sup = NoSup
    /\ resolvFile = <<>>
    /\ listeners = NoListeners
    /\ trace = <<>>
    /\ child = NoChild

\* The stub resolver of the subprocess: the names it tries for a name, in
\* order (a rooted name alone; else the name itself first when it has ndots
\* dots or more, the name with each search domain, and the name itself last
\* when it has fewer dots)
nameList(conf, name) ==
    LET rooted == Fqdn(name)
        withSearch == [i \in 1..Len(conf.search) |-> rooted \o Fqdn(conf.search[i])]
    IN  IF Len(name) > 0 /\ name[Len(name)] = "." THEN <<name>>
        ELSE IF CountDots(name) >= conf.ndots THEN <<rooted>> \o withSearch
        ELSE withSearch \o <<rooted>>

---------------------------------------------------------------------------
(* The identity token.                                                      *)

\* what the metadata server can answer to the identity query
MetadataOutcomes == {"ok", "non200", "ioerr"}

\* the token the metadata server issues for an audience
MetadataToken(audience) == <<"j", "w", "t", ":">> \o audience

\* identityToken, first branch: the environment override, if there is one
HasEnvToken == envIDToken # <<>>

\* (mutant) the override as it is in the environment
EnvToken_Untrimmed == envIDToken

EnvToken == TrimSpace(envIDToken)

\* identityTokenFromMetadata / queryMetadata: (token, err) for an outcome of
\* the HTTP exchange with the metadata server
queryMetadataToken(audience, outcome) ==
    IF outcome = "ok"
    THEN [ok |-> TRUE, token |-> TrimSpace(MetadataToken(audience)), err |-> ""]
    ELSE IF outcome = "non200"
    THEN [ok |-> FALSE, token |-> <<>>, err |-> "metadata server responeded with code"]
    ELSE [ok |-> FALSE, token |-> <<>>, err |-> "http client error"]

---------------------------------------------------------------------------
(* The rewriting reverse proxy: httputil.ReverseProxy with the Director of  *)
(* newReverseProxyHandler and the transport chain loggingTransport ->       *)
(* authenticatingTransport -> tr.                                           *)

ReqIds == 1..MaxReqs

None == [status |-> 0, body |-> <<>>]

version == <<"u", "n", "k", "n", "o", "w", "n">>

\* a request that has not arrived yet
IdleReq ==
    [pc |-> "idle", inHost |-> <<>>, inAuth |-> <<>>, inUA |-> <<>>,
     scheme |-> "", urlHost |-> <<>>, host |-> <<>>, auth |-> <<>>, ua |-> <<>>,
     early |-> None, audience |-> <<>>, metadata |-> <<>>, metaOutcome |-> "",
     idToken |-> <<>>, tokenErr |-> "", upErr |-> FALSE,
     resp |-> None]

ProxyUnused ==
    /\ envIDToken = <<>>
    /\ reqs = [i \in ReqIds |-> IdleReq]
    /\ sent = [i \in ReqIds |-> <<>>]

\* the response the Director stores under ctxKeyEarlyResponse
EarlyResponse(reqHost, err) ==
    [status |-> 500,
     body |-> <<"runsd doesn't know how to handle host", reqHost, err>>]

\* the response authenticatingTransport.RoundTrip returns on a token error
TokenErrorResponse(err) ==
    [status |-> 500, body |-> <<"failed to fetch metadata token", err>>]

\* (mutant) a Director that rewrites the host and leaves the scheme alone
DirectorResult_KeepsScheme(r) ==
    LET hp       == SplitHostPort(r.inHost)
        origHost == IF hp.ok THEN hp.host ELSE r.inHost
        m        == resolveCloudRunHost(internalDomain, origHost, currentRegion, projectHash)
    IN  IF ~m.ok
        THEN [r EXCEPT !.pc = "roundtrip", !.early = EarlyResponse(r.inHost, m.err)]
        ELSE [r EXCEPT !.pc = "roundtrip", !.urlHost = m.host, !.host = m.host]

\* (mutant) a Director that logs the mapper's error and goes on
DirectorResult_NoEarlyResponse(r) ==
    LET hp       == SplitHostPort(r.inHost)
        origHost == IF hp.ok THEN hp.host ELSE r.inHost
        m        == resolveCloudRunHost(internalDomain, origHost, currentRegion, projectHash)
    IN  [r EXCEPT !.pc = "roundtrip", !.scheme = "https",
                  !.urlHost = m.host, !.host = m.host]

\* (mutant) a Director that hands req.Host to the Name Mapper as it came
DirectorResult_KeepsPort(r) ==
    LET m == resolveCloudRunHost(internalDomain, r.inHost, currentRegion, projectHash)
    IN  IF ~m.ok
        THEN [r EXCEPT !.pc = "roundtrip", !.early = EarlyResponse(r.inHost, m.err)]
        ELSE [r EXCEPT !.pc = "roundtrip", !.scheme = "https",
                       !.urlHost = m.host, !.host = m.host]

\* the Director: req.Host without its port goes through the Name Mapper
DirectorResult(r) ==
    LET hp       == SplitHostPort(r.inHost)
        origHost == IF hp.ok THEN hp.host ELSE r.inHost
        m        == resolveCloudRunHost(internalDomain, origHost, currentRegion, projectHash)
    IN  IF ~m.ok
        THEN [r EXCEPT !.pc = "roundtrip", !.early = EarlyResponse(r.inHost, m.err)]
        ELSE [r EXCEPT !.pc = "roundtrip", !.scheme = "https",
                       !.urlHost = m.host, !.host = m.host]

\* (mutant) the fetched token always replaces the Authorization header
WithToken_AlwaysBearer(r, idToken) ==
    [r EXCEPT !.pc = "upstream",
              !.auth = <<"B", "e", "a", "r", "e", "r", " ">> \o idToken,
              !.ua = IF r.ua = <<>>
                     THEN <<"r", "u", "n", "s", "d", " ", "v", "e", "r", "s", "i", "o", "n", "=">> \o version
                     ELSE <<"r", "u", "n", "s", "d", " ", "v", "e", "r", "s", "i", "o", "n", "=">> \o version \o <<";", " ">> \o r.ua]

\* authenticatingTransport.RoundTrip after identityToken returned idToken:
\* the headers of the request handed to a.next.RoundTrip
WithToken(r, idToken) ==
    [r EXCEPT !.pc = "upstream",
              !.auth = IF r.auth = <<>> THEN <<"B", "e", "a", "r", "e", "r", " ">> \o idToken ELSE r.auth,
              !.ua = IF r.ua = <<>>
                     THEN <<"r", "u", "n", "s", "d", " ", "v", "e", "r", "s", "i", "o", "n", "=">> \o version
                     ELSE <<"r", "u", "n", "s", "d", " ", "v", "e", "r", "s", "i", "o", "n", "=">> \o version \o <<";", " ">> \o r.ua]

\* (mutant) a request that brings its own Authorization header goes to
\* a.next whatever identityToken returned
AfterToken_OwnAuthSkipsError(r, t) ==
    IF ~t.ok /\ r.auth = <<>>
    THEN [r EXCEPT !.pc = "done", !.resp = TokenErrorResponse(t.err)]
    ELSE WithToken(r, t.token)

\* authenticatingTransport.RoundTrip after identityToken returned t: on an
\* error a 500 is returned and a.next is not called
AfterToken(r, t) ==
    IF ~t.ok
    THEN [r EXCEPT !.pc = "done", !.resp = TokenErrorResponse(t.err)]
    ELSE WithToken(r, t.token)

\* what a.next.RoundTrip receives
Outbound(r) ==
    [scheme |-> r.scheme, urlHost |-> r.urlHost, host |-> r.host,
     auth |-> r.auth, ua |-> r.ua]

\* inbound requests: Host, Authorization and User-Agent (<<>>: header absent)
InboundRequests ==
    {<<<<"h", "e", "l", "l", "o">>, <<>>, <<>>>>,
     <<<<"h", "e", "l", "l", "o">>, <<"B", "a", "s", "i", "c", " ", "d", "X", "N", "l", "c", "g", "=", "=">>, <<"c", "u", "r", "l", "/", "7">>>>,
     <<<<"h", "e", "l", "l", "o", ":", "8", "0", "8", "0">>, <<>>, <<"c", "u", "r", "l", "/", "7">>>>,
     <<<<"H", "e", "l", "l", "o", ".", "a", "s", "i", "a", "-", "e", "a", "s", "t", "1">>, <<"B", "a", "s", "i", "c", " ", "d", "X", "N", "l", "c", "g", "=", "=">>, <<>>>>,
     <<<<"h", "e", "l", "l", "o", ".", "u", "s", "-", "c", "e", "n", "t", "r", "a", "l", "1", ".", "r", "u", "n", ".", "i", "n", "t", "e", "r", "n", "a", "l">>, <<>>, <<"c", "u", "r", "l", "/", "7">>>>,
     <<<<"h", "e", "l", "l", "o", ".", "d", "e", "f">>, <<>>, <<"c", "u", "r", "l", "/", "7">>>>,
     <<<<"h", "e", "l", "l", "o", ".", "d", "e", "f", ":", "4", "4", "3">>, <<>>, <<"c", "u", "r", "l", "/", "7">>>>,
     <<<<"a", ".", "h", "e", "l", "l", "o", ".", "u", "s", "-", "c", "e", "n", "t", "r", "a", "l", "1", ":", "8", "0">>, <<"B", "a", "s", "i", "c", " ", "d", "X", "N", "l", "c", "g", "=", "=">>, <<"c", "u", "r", "l", "/", "7">>>>}

\* the server accepts a request: outreq is a clone of it
Receive(i) ==
    /\ reqs[i].pc = "idle"
    /\ \E in \in InboundRequests :
          reqs' = [reqs EXCEPT ![i] =
                      [IdleReq EXCEPT !.pc = "director",
                                      !.inHost = in[1], !.inAuth = in[2], !.inUA = in[3],
                                      !.host = in[1], !.auth = in[2], !.ua = in[3]]]
    /\ UNCHANGED <<cfgVars, mapperVars, envIDToken, sent, dnsVars, bootVars>>

Director(i) ==
    /\ reqs[i].pc = "director"
    /\ reqs' = [reqs EXCEPT ![i] = DirectorResult(reqs[i])]
    /\ UNCHANGED <<cfgVars, mapperVars, envIDToken, sent, dnsVars, bootVars>>

\* (mutant) the audience made of the Host the client sent
Audience_InboundHost(r) == <<"h", "t", "t", "p", "s", ":", "/", "/">> \o r.inHost

\* the audience authenticatingTransport.RoundTrip asks a token for
Audience(r) == <<"h", "t", "t", "p", "s", ":", "/", "/">> \o r.host

\* authenticatingTransport.RoundTrip up to the point where it blocks on the
\* metadata server: the early response is returned, or the token comes from
\* the environment and the request goes to a.next, or the metadata query starts
RoundTrip(i) ==
    /\ reqs[i].pc = "roundtrip"
    /\ LET r   == reqs[i]
           aud == Audience(r)
       IN  IF r.early # None
           THEN /\ reqs' = [reqs EXCEPT ![i] = [r EXCEPT !.pc = "done", !.resp = r.early]]
                /\ sent' = sent
           ELSE IF HasEnvToken
           THEN /\ reqs' = [reqs EXCEPT ![i] =
                               AfterToken([r EXCEPT !.audience = aud, !.idToken = EnvToken],
                                          [ok |-> TRUE, token |-> EnvToken, err |-> ""])]
                /\ sent' = [sent EXCEPT ![i] = Append(@, Outbound(reqs'[i]))]
           ELSE /\ reqs' = [reqs EXCEPT ![i] = [r EXCEPT !.pc = "token", !.audience = aud,
                                                         !.metadata = Append(@, aud)]]
                /\ sent' = sent
    /\ UNCHANGED <<cfgVars, mapperVars, envIDToken, dnsVars, bootVars>>

\* the metadata server answers (or fails): the token is injected and the
\* request goes to a.next, or the transport returns a 500
MetadataReply(i) ==
    /\ reqs[i].pc = "token"
    /\ \E outcome \in MetadataOutcomes :
          LET r == reqs[i]
              t == queryMetadataToken(r.audience, outcome)
          IN  /\ reqs' = [reqs EXCEPT ![i] = [AfterToken(r, t) EXCEPT !.tokenErr = t.err,
                                                                  !.metaOutcome = outcome,
                                                                  !.idToken = t.token]]
              /\ sent' = IF reqs'[i].pc = "upstream"
                         THEN [sent EXCEPT ![i] = Append(@, Outbound(reqs'[i]))]
                         ELSE sent
    /\ UNCHANGED <<cfgVars, mapperVars, envIDToken, dnsVars, bootVars>>

UpstreamStatuses == {200}

\* (mutant) a transport that hands the request to tr once more when tr
\* returned an error
UpstreamReply_Retries(i) ==
    /\ reqs[i].pc = "upstream"
    /\ \/ /\ \E st \in UpstreamStatuses :
                reqs' = [reqs EXCEPT ![i].pc = "done",
                                     ![i].resp = [status |-> st, body |-> <<"upstream">>]]
          /\ sent' = sent
       \/ /\ ~reqs[i].upErr
          /\ reqs' = [reqs EXCEPT ![i].upErr = TRUE]
          /\ sent' = [sent EXCEPT ![i] = Append(@, Outbound(reqs[i]))]
       \/ /\ reqs[i].upErr
          /\ reqs' = [reqs EXCEPT ![i].pc = "done",
                                   ![i].resp = [status |-> 502, body |-> <<>>]]
          /\ sent' = sent
    /\ UNCHANGED <<cfgVars, mapperVars, envIDToken, dnsVars, bootVars>>

\* tr.RoundTrip returns: a response, which ReverseProxy copies to the client,
\* or an error, which its default ErrorHandler turns into a 502
UpstreamReply(i) ==
    /\ reqs[i].pc = "upstream"
    /\ \/ \E st \in UpstreamStatuses :
             reqs' = [reqs EXCEPT ![i].pc = "done",
                                  ![i].resp = [status |-> st, body |-> <<"upstream">>]]
       \/ reqs' = [reqs EXCEPT ![i].pc = "done", ![i].upErr = TRUE,
                                ![i].resp = [status |-> 502, body |-> <<>>]]
    /\ sent' = sent
    /\ UNCHANGED <<cfgVars, mapperVars, envIDToken, dnsVars, bootVars>>

ProxyRegions == {<<"u", "s", "-", "c", "e", "n", "t", "r", "a", "l", "1">>, <<"a", "s", "i", "a", "-", "e", "a", "s", "t", "1">>}
EnvTokens == {<<>>, <<" ", "t", "o", "k", " ">>}

InitProxy ==
    /\ internalDomain = <<"r", "u", "n", ".", "i", "n", "t", "e", "r", "n", "a", "l", ".">>
    /\ currentRegion \in ProxyRegions
    /\ projectHash = <<"d", "p", "y", "b", "4", "d", "u", "z", "q", "q">>
    /\ hostname = <<>>
    /\ mapped = NoResult
    /\ envIDToken \in EnvTokens
    /\ reqs = [i \in ReqIds |-> IdleReq]
    /\ sent = [i \in ReqIds |-> <<>>]
    /\ DnsUnused
    /\ BootUnused

NextProxy ==
    \E i \in ReqIds :
        \/ Receive(i)
        \/ Director(i)
        \/ RoundTrip(i)
        \/ MetadataReply(i)
        \/ UpstreamReply(i)

SpecProxy == InitProxy /\ [][NextProxy]_vars

---------------------------------------------------------------------------
(* Inputs of the Name Mapper: hostnames are built from labels, joined with  *)
(* dots, so that short names, qualified names, names inside the internal    *)
(* zone, names with too many labels, upper case, a trailing dot and         *)
(* characters outside [a-z0-9-] all occur.                                  *)

RECURSIVE Join(_)
\* strings.Join(labels, ".")
Join(labels) ==
    IF Len(labels) = 0 THEN <<>>
    ELSE IF Len(labels) = 1 THEN labels[1]
    ELSE labels[1] \o <<".">> \o Join(Tail(labels))

SeqsUpTo(S, n) == UNION {[1..k -> S] : k \in 0..n}

SvcLabels == {<<"h", "e", "l", "l", "o">>, <<"A", "b">>, <<"a", "_", "b">>, <<>>}
MidLabels == {<<"u", "s", "-", "c", "e", "n", "t", "r", "a", "l", "1">>, <<"a", "s", "i", "a", "-", "e", "a", "s", "t", "1">>, <<"d", "e", "f">>, <<"U", "S", "-", "E", "A", "S", "T", "1">>}
ZoneSuffixes == {<<"r", "u", "n", ".", "i", "n", "t", "e", "r", "n", "a", "l">>, <<"f", "o", "o", ".", "b", "a", "r">>}

HostNames ==
    {Join(pre \o mid \o suf) \o dot :
        pre \in SeqsUpTo(SvcLabels, MaxPreLabels),
        mid \in {<<>>} \cup {<<m>> : m \in MidLabels},
        suf \in {<<>>} \cup {<<z>> : z \in ZoneSuffixes},
        dot \in {<<>>, <<".">>}}

Domains == {<<"r", "u", "n", ".", "i", "n", "t", "e", "r", "n", "a", "l", ".">>, <<"f", "o", "o", ".", "b", "a", "r", ".">>, <<"r", "u", "n", ".", "i", "n", "t", "e", "r", "n", "a", "l">>}
Regions == {<<"u", "s", "-", "c", "e", "n", "t", "r", "a", "l", "1">>, <<"a", "s", "i", "a", "-", "e", "a", "s", "t", "1">>, <<"m", "a", "r", "s", "-", "1">>, <<>>}
Hashes  == {<<"d", "p", "y", "b", "4", "d", "u", "z", "q", "q">>, <<"P", "-", "q">>}

---------------------------------------------------------------------------
(* Specification of the Name Mapper as a pure function: Init draws the      *)
(* arguments, CallResolve applies resolveCloudRunHost to them.              *)

InitMapper ==
    /\ internalDomain \in Domains
    /\ currentRegion \in Regions
    /\ projectHash \in Hashes
    /\ hostname \in HostNames
    /\ mapped = NoResult
    /\ ProxyUnused
    /\ DnsUnused
    /\ BootUnused

CallResolve ==
    /\ mapped = NoResult
    /\ mapped' = resolveCloudRunHost(internalDomain, hostname, currentRegion, projectHash)
    /\ UNCHANGED <<cfgVars, hostname, proxyVars, dnsVars, bootVars>>

NextMapper == CallResolve

SpecMapper == InitMapper /\ [][NextMapper]_vars

---------------------------------------------------------------------------
(* The DNS server on its own, with a validated configuration.              *)

\* Queries: names inside and outside the zone of the server
NamePrefixes ==
    {<<>>, <<"a", ".">>, <<"h", "e", "l", "l", "o", ".", "u", "s", "-", "c", "e", "n", "t", "r", "a", "l", "1", ".">>, <<"H", "e", "l", "l", "o", ".", "a", "s", "i", "a", "-", "e", "a", "s", "t", "1", ".">>, <<"h", "e", "l", "l", "o", ".", "d", "e", "f", ".">>,
     <<"a", ".", "b", ".", "u", "s", "-", "c", "e", "n", "t", "r", "a", "l", "1", ".">>, <<"h", "e", "l", "l", "o", ".", "U", "S", "-", "E", "A", "S", "T", "1", ".">>}
OutsideNames ==
    {<<"e", "x", "a", "m", "p", "l", "e", ".", "c", "o", "m", ".">>, <<"h", "e", "l", "l", "o", ".", "u", "s", "-", "c", "e", "n", "t", "r", "a", "l", "1", ".">>, <<"a", ".", "b", ".", "c", ".", "e", "x", "a", "m", "p", "l", "e", ".", "c", "o", "m", ".">>,
     <<"h", "e", "l", "l", "o", ".", "u", "s", "-", "c", "e", "n", "t", "r", "a", "l", "1", ".", "R", "U", "N", ".", "I", "N", "T", "E", "R", "N", "A", "L", ".">>}
QueryNames(d) == {p \o Fqdn(d.domain) : p \in NamePrefixes} \cup OutsideNames
QueryTypes == {"A", "AAAA", "MX"}
Questions(d) == {[name |-> n, qtype |-> t] : n \in QueryNames(d), t \in QueryTypes}
Messages(d) ==
    {[id |-> 4660, rd |-> TRUE, question |-> qs] :
        qs \in UNION {[1..k -> Questions(d)] : k \in 1..MaxQuestions}}

DnsDomains == {<<"r", "u", "n", ".", "i", "n", "t", "e", "r", "n", "a", "l", ".">>, <<"f", "o", "o", ".", "b", "a", "r", ".">>}
DnsNdots == {3, 4}

InitDNS ==
    /\ internalDomain \in DnsDomains
    /\ currentRegion = <<"u", "s", "-", "c", "e", "n", "t", "r", "a", "l", "1">>
    /\ projectHash = <<"d", "p", "y", "b", "4", "d", "u", "z", "q", "q">>
    /\ hostname = <<>>
    /\ mapped = NoResult
    /\ ProxyUnused
    /\ \E n \in DnsNdots, v6 \in BOOLEAN :
          dnsHijack = [domain |-> internalDomain, nameserver |-> <<"1", "6", "9", ".", "2", "5", "4", ".", "1", "6", "9", ".", "2", "5", "4">>,
                       dots |-> n, serveIPv6 |-> v6]
    /\ dnsPc = "idle"
    /\ dnsMsg = NoMsg
    /\ dnsFwd = <<>>
    /\ dnsUp = <<>>
    /\ dnsReplies = <<>>
    /\ BootUnused

\* the handlers keep no state from one query to the next: a behaviour
\* follows one query
Query ==
    /\ dnsPc = "idle"
    /\ \E msg \in Messages(dnsHijack) : Accept(msg)
    /\ UNCHANGED <<cfgVars, mapperVars, proxyVars, bootVars>>

Serve ==
    /\ ServeDNS
    /\ UNCHANGED <<cfgVars, mapperVars, proxyVars, bootVars>>

Recursed ==
    /\ ExchangeReply
    /\ UNCHANGED <<cfgVars, mapperVars, proxyVars, bootVars>>

RecurseFailed ==
    /\ ExchangeError
    /\ UNCHANGED <<cfgVars, mapperVars, proxyVars, bootVars>>

NextDNS == Query \/ Serve \/ Recursed \/ RecurseFailed

SpecDNS == InitDNS /\ [][NextDNS]_vars

---------------------------------------------------------------------------
(* Bootstrap on the platform, and the name lookups of the subprocess        *)
(* through the rewritten resolver file.                                     *)

\* os.Exit: the exit status of the process
osExit(code) == code % 256

\* klog.Exit and klog.Exitf end the process with 1, klog.Fatal and
\* klog.Fatalf with 255
klogExit == osExit(1)
klogFatal == osExit(255)

Exited(code) == [sup EXCEPT !.pc = "exited", !.exitCode = code]

\* main, from the flags to the positional arguments: PORT=80, an
\* unresolvable user and missing arguments end the process
Preflight ==
    /\ sup.pc = "start"
    /\ sup' = IF sup.port80 \/ ~sup.userOK \/ ~sup.posArgs
              THEN Exited(klogExit)
              ELSE [sup EXCEPT !.pc = "preflight"]
    /\ UNCHANGED <<cfgVars, mapperVars, proxyVars, dnsVars, resolvFile, listeners,
                   trace, child>>

\* main reads the resolver file and chooses the upstream nameserver
ReadConfig ==
    /\ sup.pc = "preflight"
    /\ LET rc == ClientConfigFromFile(resolvFile)
           ns == IF sup.flNameserver # <<>> THEN sup.flNameserver
                 ELSE IF Len(rc.servers) > 0 THEN rc.servers[1]
                 ELSE <<>>
       IN  sup' = IF ns = <<>> THEN [Exited(klogExit) EXCEPT !.rc = rc]
                  ELSE [sup EXCEPT !.pc = "configured", !.rc = rc, !.useNameserver = ns]
    /\ trace' = Append(trace, "read")
    /\ UNCHANGED <<cfgVars, mapperVars, proxyVars, dnsVars, resolvFile, listeners, child>>

\* main cannot read the resolver file
ReadConfigFailed ==
    /\ sup.pc = "preflight"
    /\ sup' = Exited(klogExit)
    /\ trace' = Append(trace, "read")
    /\ UNCHANGED <<cfgVars, mapperVars, proxyVars, dnsVars, resolvFile, listeners, child>>

\* what the metadata server says the region is (<<>> is a failed request),
\* and what the admin API answers: an error, or the URL of the service
MetadataRegions == {<<"u", "s", "-", "c", "e", "n", "t", "r", "a", "l", "1">>, <<"m", "a", "r", "s", "-", "1">>, <<>>}
AdminAnswers ==
    {[err |-> FALSE, url |-> <<"h", "t", "t", "p", "s", ":", "/", "/", "h", "e", "l", "l", "o", "-", "d", "p", "y", "b", "4", "d", "u", "z", "q", "q", "-", "u", "c", ".", "a", ".", "r", "u", "n", ".", "a", "p", "p">>],
     [err |-> FALSE, url |-> <<"h", "t", "t", "p", "s", ":", "/", "/", "m", "y", "-", "s", "v", "c", "-", "d", "p", "y", "b", "4", "d", "u", "z", "q", "q", "-", "u", "c", ".", "a", ".", "r", "u", "n", ".", "a", "p", "p">>],
     [err |-> FALSE, url |-> <<>>],
     [err |-> TRUE, url |-> <<>>]}

\* a run-time panic of the Go program ends the process with status 2
goPanic == osExit(2)

\* (mutant) the last token taken for the hash
hashFromURL_LastToken(url) ==
    LET tkns == Split(TrimSuffix(url, <<".", "a", ".", "r", "u", "n", ".", "a", "p", "p">>), "-")
    IN  [panic |-> FALSE, hash |-> tkns[Len(tkns)]]

\* hashFromURL: the last but one of the tokens between hyphens, the suffix
\* .a.run.app left out; the index is out of range when there is one token
hashFromURL(url) ==
    LET tkns == Split(TrimSuffix(url, <<".", "a", ".", "r", "u", "n", ".", "a", "p", "p">>), "-")
    IN  IF Len(tkns) - 1 < 1
        THEN [panic |-> TRUE, hash |-> <<>>]
        ELSE [panic |-> FALSE, hash |-> tkns[Len(tkns) - 1]]

\* getProjectHash: (hash, err) from the URL of the service as the admin API
\* gives it, or a panic of hashFromURL
getProjectHash(answer) ==
    IF answer.err THEN [ok |-> FALSE, panic |-> FALSE, hash |-> <<>>]
    ELSE [ok |-> ~hashFromURL(answer.url).panic,
          panic |-> hashFromURL(answer.url).panic,
          hash |-> hashFromURL(answer.url).hash]

\* every region taken as it comes
RegionAccepted_Always(onCloudRun, region) == TRUE

\* main looks the region up in the catalog when it is on the platform
RegionAccepted(onCloudRun, region) == ~onCloudRun \/ RegionKnown(region)

\* main decides whether it is on the platform, finds the region (flag, else
\* metadata server) and the project hash (flag, else admin API), and ends
\* the process when on the platform a request fails or the region is not in
\* the catalog
Discover ==
    /\ sup.pc = "configured"
    /\ \E metaRegion \in MetadataRegions, answer \in AdminAnswers :
          LET onCloudRun == sup.flRegion # <<>> \/ sup.useNameserver = <<"1", "6", "9", ".", "2", "5", "4", ".", "1", "6", "9", ".", "2", "5", "4">>
              fromFlag   == ~onCloudRun \/ sup.flRegion # <<>>
              region     == IF fromFlag THEN sup.flRegion ELSE metaRegion
              regionErr  == ~fromFlag /\ metaRegion = <<>>
              needHash   == onCloudRun /\ sup.flProjectHash = <<>>
              got        == getProjectHash(answer)
              hash       == IF needHash THEN got.hash ELSE sup.flProjectHash
          IN  IF regionErr
              THEN /\ sup' = [Exited(klogExit) EXCEPT !.onCloudRun = onCloudRun]
                   /\ UNCHANGED <<currentRegion, projectHash>>
              ELSE IF ~RegionAccepted(onCloudRun, region)
              THEN /\ sup' = [Exited(klogExit) EXCEPT !.onCloudRun = onCloudRun]
                   /\ currentRegion' = region
                   /\ UNCHANGED projectHash
              ELSE IF needHash /\ got.panic
              THEN /\ sup' = [Exited(goPanic) EXCEPT !.onCloudRun = onCloudRun,
                                                     !.askedAdmin = TRUE,
                                                     !.answer = answer,
                                                     !.panicked = TRUE]
                   /\ currentRegion' = region
                   /\ UNCHANGED projectHash
              ELSE IF needHash /\ ~got.ok
              THEN /\ sup' = [Exited(klogExit) EXCEPT !.onCloudRun = onCloudRun,
                                                      !.askedAdmin = TRUE,
                                                      !.answer = answer]
                   /\ currentRegion' = region
                   /\ UNCHANGED projectHash
              ELSE /\ sup' = [sup EXCEPT !.pc = "validated", !.onCloudRun = onCloudRun,
                                         !.askedAdmin = needHash,
                                         !.answer = IF needHash THEN answer ELSE @]
                   /\ currentRegion' = region
                   /\ projectHash' = hash
    /\ UNCHANGED <<internalDomain, mapperVars, proxyVars, dnsVars, resolvFile, listeners,
                   trace, child>>

\* the flag read the wrong way round
HijackEnabled_FlagInverted == sup.onCloudRun /\ sup.flSkipDNSServer

\* main starts the DNS server and hijacks the resolver file
HijackEnabled == sup.onCloudRun /\ ~sup.flSkipDNSServer

\* the listeners in s have been started
Started(s) == [l \in ListenerIds |-> IF l \in s THEN "starting" ELSE listeners[l]]

\* main, from the start of the DNS listeners to the rewritten resolver file
HijackDNS ==
    /\ sup.pc = "validated"
    /\ HijackEnabled
    /\ dnsHijack' = [domain |-> internalDomain, nameserver |-> sup.useNameserver,
                     dots |-> sup.flNdots, serveIPv6 |-> sup.ipv6OK]
    /\ dnsPc' = "idle"
    /\ listeners' = Started(DNSListeners(sup.ipv6OK))
    /\ resolvFile' =
          configureResolvConf(
              IF sup.ipv6OK THEN <<ipv4Loopback, IPv6loopback>> ELSE <<ipv4Loopback>>,
              cloudRunZones(currentRegion, internalDomain) \o sup.rc.search,
              sup.flNdots)
    /\ trace' = trace \o <<"listen-dns", "write">>
    /\ sup' = [sup EXCEPT !.pc = "dns"]
    /\ UNCHANGED <<cfgVars, mapperVars, proxyVars, dnsMsg, dnsFwd, dnsUp, dnsReplies, child>>

\* main: configureResolvConf cannot open the file, and the process ends
HijackFailed ==
    /\ sup.pc = "validated"
    /\ HijackEnabled
    /\ dnsHijack' = [domain |-> internalDomain, nameserver |-> sup.useNameserver,
                     dots |-> sup.flNdots, serveIPv6 |-> sup.ipv6OK]
    /\ listeners' = Started(DNSListeners(sup.ipv6OK))
    /\ trace' = Append(trace, "listen-dns")
    /\ sup' = Exited(klogFatal)
    /\ UNCHANGED <<cfgVars, mapperVars, proxyVars, dnsPc, dnsMsg, dnsFwd, dnsUp, dnsReplies,
                   resolvFile, child>>

\* main skips the DNS server and the resolver file
SkipDNS ==
    /\ sup.pc = "validated"
    /\ ~HijackEnabled
    /\ sup' = [sup EXCEPT !.pc = "dns"]
    /\ UNCHANGED <<cfgVars, mapperVars, proxyVars, dnsVars, resolvFile, listeners,
                   trace, child>>

\* the proxy started whenever it is not skipped by flag
ProxyEnabled_OffPlatformToo == ~sup.flSkipHTTPProxyServer

ProxyEnabled == sup.onCloudRun /\ ~sup.flSkipHTTPProxyServer

\* main sets the proxy up from project hash, region and zone and starts its
\* listeners
StartProxy ==
    /\ sup.pc = "dns"
    /\ ProxyEnabled
    /\ listeners' = Started(ProxyListeners(sup.ipv6OK))
    /\ trace' = Append(trace, "listen-proxy")
    /\ sup' = [sup EXCEPT !.pc = "proxy"]
    /\ UNCHANGED <<cfgVars, mapperVars, proxyVars, dnsVars, resolvFile, child>>

\* main skips the proxy
SkipProxy ==
    /\ sup.pc = "dns"
    /\ ~ProxyEnabled
    /\ sup' = [sup EXCEPT !.pc = "proxy"]
    /\ UNCHANGED <<cfgVars, mapperVars, proxyVars, dnsVars, resolvFile, listeners,
                   trace, child>>

\* main starts the subprocess
StartChild ==
    /\ sup.pc = "proxy"
    /\ sup' = [sup EXCEPT !.pc = "waiting", !.forwarder = "receiving"]
    /\ child' = [child EXCEPT !.pc = "idle"]
    /\ trace' = Append(trace, "start")
    /\ UNCHANGED <<cfgVars, mapperVars, proxyVars, dnsVars, resolvFile, listeners>>

\* main cannot start the subprocess
StartChildFailed ==
    /\ sup.pc = "proxy"
    /\ sup' = Exited(osExit(1))
    /\ UNCHANGED <<cfgVars, mapperVars, proxyVars, dnsVars, resolvFile, listeners,
                   trace, child>>

\* a listener that was started binds its address and serves
ListenerBinds(l) ==
    /\ sup.pc # "exited"
    /\ listeners[l] = "starting"
    /\ listeners' = [listeners EXCEPT ![l] = "bound"]
    /\ UNCHANGED <<cfgVars, mapperVars, proxyVars, dnsVars, sup, resolvFile, trace, child>>

\* the error of the listener logged, and no more
ListenerFails_LogsOnly(l) ==
    /\ sup.pc # "exited"
    /\ listeners[l] \in {"starting", "bound"}
    /\ listeners' = [listeners EXCEPT ![l] = "failed"]
    /\ UNCHANGED <<cfgVars, mapperVars, proxyVars, dnsVars, sup, resolvFile, trace, child>>

\* a listener cannot bind, or stops serving: its goroutine ends the process
ListenerFails(l) ==
    /\ sup.pc # "exited"
    /\ listeners[l] \in {"starting", "bound"}
    /\ listeners' = [listeners EXCEPT ![l] = "failed"]
    /\ sup' = Exited(klogFatal)
    /\ UNCHANGED <<cfgVars, mapperVars, proxyVars, dnsVars, resolvFile, trace, child>>

\* (mutant) a resolver that dials the address it is given
resolverDial_GivenAddress(nameserver, address) == address

\* resolver: the Dial of net.DefaultResolver connects to the nameserver main
\* chose, whatever address the resolver asks for
resolverDial(nameserver, address) == nameserver

\* the hosts the sidecar itself resolves: the metadata server, by both of
\* its names, and a canonical host
SidecarNames ==
    {<<"m", "e", "t", "a", "d", "a", "t", "a">>, <<"m", "e", "t", "a", "d", "a", "t", "a", ".", "g", "o", "o", "g", "l", "e", ".", "i", "n", "t", "e", "r", "n", "a", "l">>, <<"h", "e", "l", "l", "o", "-", "d", "p", "y", "b", "4", "d", "u", "z", "q", "q", "-", "u", "c", ".", "a", ".", "r", "u", "n", ".", "a", "p", "p">>}

\* the sidecar resolves a name through net.DefaultResolver: the Go resolver
\* takes search list, ndots and server address from the resolver file as it
\* is now, and every query goes through Dial
SidecarLookup(name) ==
    /\ sup.pc \in {"configured", "validated", "dns", "proxy", "waiting"}
    /\ LET conf  == ClientConfigFromFile(resolvFile)
           addr  == IF conf.servers = <<>> THEN ipv4Loopback ELSE conf.servers[1]
           names == nameList(conf, name)
       IN  sup' = [sup EXCEPT !.lookup =
                      [i \in 1..Len(names) |->
                          [name |-> names[i], asked |-> addr,
                           to |-> resolverDial(sup.useNameserver, addr)]]]
    /\ UNCHANGED <<cfgVars, mapperVars, proxyVars, dnsVars, resolvFile, listeners,
                   trace, child>>

\* the signals main asks to be notified of
NotifiedSignals == {"interrupt", "terminated"}

\* the capacity of the channel the signals are sent on
sigChCap == 1

\* a signal reaches the process: it is sent on the channel without blocking,
\* and is dropped when the channel is full. A signal is written down with
\* its number and with whether the subprocess was running
SignalArrives(sig) ==
    /\ sup.pc \notin {"off", "exited"}
    /\ Len(sup.signals) < MaxSignals
    /\ LET n == Len(sup.signals) + 1
           running == sup.pc = "waiting" /\ child.pc # "ended"
       IN  sup' = [sup EXCEPT
                      !.signals = Append(@, [n |-> n, sig |-> sig, running |-> running]),
                      !.sigCh = IF Len(@) < sigChCap
                                THEN Append(@, [n |-> n, sig |-> sig])
                                ELSE @]
    /\ UNCHANGED <<cfgVars, mapperVars, proxyVars, dnsVars, resolvFile, listeners,
                   trace, child>>

\* (mutant) the goroutine ends the supervisor once it has passed the signal on
Forward_ThenExits ==
    /\ sup.pc = "waiting"
    /\ sup.forwarder = "receiving"
    /\ Len(sup.sigCh) > 0
    /\ sup' = [Exited(klogExit) EXCEPT !.sigCh = Tail(@), !.forwarder = "done"]
    /\ child' = IF child.pc = "ended" THEN child
                ELSE [child EXCEPT !.signals = Append(@, sup.sigCh[1])]
    /\ UNCHANGED <<cfgVars, mapperVars, proxyVars, dnsVars, resolvFile, listeners,
                   trace>>

\* the goroutine main starts after the subprocess: it receives one signal
\* from the channel, signals the subprocess with it, and returns
Forward ==
    /\ sup.pc = "waiting"
    /\ sup.forwarder = "receiving"
    /\ Len(sup.sigCh) > 0
    /\ sup' = [sup EXCEPT !.sigCh = Tail(@), !.forwarder = "done"]
    /\ child' = IF child.pc = "ended" THEN child
                ELSE [child EXCEPT !.signals = Append(@, sup.sigCh[1])]
    /\ UNCHANGED <<cfgVars, mapperVars, proxyVars, dnsVars, resolvFile, listeners,
                   trace>>

\* the exit codes of the subprocess
ExitCodes == {0, 1, 2, 255}

\* the subprocess exits with a code
ChildExits(c) ==
    /\ child.pc \notin {"off", "ended"}
    /\ child' = [child EXCEPT !.pc = "ended", !.ended = "exit", !.code = c]
    /\ UNCHANGED <<cfgVars, mapperVars, proxyVars, dnsVars, sup, resolvFile, listeners,
                   trace>>

\* the subprocess is ended by a signal
ChildKilled ==
    /\ child.pc \notin {"off", "ended"}
    /\ child' = [child EXCEPT !.pc = "ended", !.ended = "signal"]
    /\ UNCHANGED <<cfgVars, mapperVars, proxyVars, dnsVars, sup, resolvFile, listeners,
                   trace>>

\* success or failure alone
ExitCode_SuccessOrFailure(c) == IF c.ended = "exit" /\ c.code = 0 THEN 0 ELSE 1

\* ProcessState.ExitCode: the code of a subprocess that exited, -1 for one
\* that a signal ended
ExitCode(c) == IF c.ended = "exit" THEN c.code ELSE -1

\* main: c.Wait returns. Without error main returns; with an ExitError the
\* process ends with its ExitCode
WaitReturns ==
    /\ sup.pc = "waiting"
    /\ child.pc = "ended"
    /\ sup' = IF child.ended = "exit" /\ child.code = 0
              THEN Exited(0)
              ELSE Exited(osExit(ExitCode(child)))
    /\ trace' = Append(trace, "waited")
    /\ UNCHANGED <<cfgVars, mapperVars, proxyVars, dnsVars, resolvFile, listeners, child>>

\* main: c.Wait returns an error that is not an ExitError
WaitFailed ==
    /\ sup.pc = "waiting"
    /\ child.pc = "ended"
    /\ sup' = Exited(klogExit)
    /\ trace' = Append(trace, "wait failed")
    /\ UNCHANGED <<cfgVars, mapperVars, proxyVars, dnsVars, resolvFile, listeners, child>>

\* the configuration the stub resolver of the subprocess reads
childConfig == ClientConfigFromFile(resolvFile)

\* the nameservers of the file on which the server listens
Listening ==
       (IF listeners["dns-udp4"] = "bound" THEN {ipv4Loopback} ELSE {})
    \cup (IF listeners["dns-udp6"] = "bound" THEN {IPv6loopback} ELSE {})

\* every listener that was started serves
Settled == \A l \in ListenerIds : listeners[l] \in {"none", "bound"}

\* the subprocess starts to look a name up; the server keeps no state from
\* one query to the next, and a behaviour follows one lookup
Lookup(name) ==
    /\ child.pc = "idle"
    /\ Settled
    /\ child' = [child EXCEPT !.pc = "ask", !.name = name,
                              !.names = nameList(childConfig, name),
                              !.idx = 1, !.qtype = "A"]
    /\ UNCHANGED <<cfgVars, mapperVars, proxyVars, dnsVars, sup, resolvFile, listeners, trace>>

\* the resolver sends the query for the current name and type to the first
\* nameserver of the file
Ask ==
    /\ child.pc = "ask"
    /\ childConfig.servers # <<>>
    /\ childConfig.servers[1] \in Listening
    /\ Accept([id |-> 4660, rd |-> TRUE,
               question |-> <<[name |-> child.names[child.idx], qtype |-> child.qtype]>>])
    /\ child' = [child EXCEPT !.pc = "wait"]
    /\ UNCHANGED <<cfgVars, mapperVars, proxyVars, sup, resolvFile, listeners, trace>>

\* the addresses of the asked type in a reply
RECURSIVE addresses(_, _)
addresses(records, qtype) ==
    IF records = <<>> THEN <<>>
    ELSE (IF records[1].rrtype = qtype THEN <<records[1].data>> ELSE <<>>)
         \o addresses(Tail(records), qtype)

\* the resolver has the outcome of a query (a reply, or none and it timed
\* out); after both types of a name it stops if it has addresses, else it
\* goes on to the next name
Outcome ==
    /\ child.pc = "wait"
    /\ dnsPc = "done"
    /\ LET rcode == IF dnsReplies = <<>> THEN "timeout" ELSE dnsReplies[1].rcode
           got   == IF rcode = "NOERROR"
                    THEN addresses(dnsReplies[1].answer, child.qtype) ELSE <<>>
           addrs == child.addrs \o got
           entry == [name |-> child.names[child.idx], qtype |-> child.qtype,
                     via |-> IF dnsFwd = <<>> THEN "local" ELSE "upstream",
                     rcode |-> rcode]
       IN  child' =
             IF child.qtype = "A"
             THEN [child EXCEPT !.pc = "ask", !.qtype = "AAAA", !.addrs = addrs,
                                !.log = Append(@, entry)]
             ELSE IF addrs # <<>> \/ child.idx = Len(child.names)
             THEN [child EXCEPT !.pc = "done", !.addrs = addrs, !.log = Append(@, entry)]
             ELSE [child EXCEPT !.pc = "ask", !.qtype = "A", !.idx = @ + 1,
                                !.addrs = addrs, !.log = Append(@, entry)]
    /\ UNCHANGED <<cfgVars, mapperVars, proxyVars, dnsVars, sup, resolvFile, listeners, trace>>

\* the subprocess sends its request to the loopback address it was given,
\* with the name it looked up as Host, and the Director of the proxy hands
\* the Host to the Name Mapper
Request ==
    /\ child.pc = "done"
    /\ child.addrs # <<>>
    /\ Range(child.addrs) \subseteq {ipv4Loopback, IPv6loopback}
    /\ LET hp       == SplitHostPort(child.name)
           origHost == IF hp.ok THEN hp.host ELSE child.name
       IN  /\ hostname' = origHost
           /\ mapped' = resolveCloudRunHost(internalDomain, origHost, currentRegion,
                                            projectHash)
    /\ child' = [child EXCEPT !.pc = "requested"]
    /\ UNCHANGED <<cfgVars, proxyVars, dnsVars, sup, resolvFile, listeners, trace>>

\* The resolver files found on the platform
OriginalFiles ==
    {<<<<"n", "a", "m", "e", "s", "e", "r", "v", "e", "r", " ", "1", "6", "9", ".", "2", "5", "4", ".", "1", "6", "9", ".", "2", "5", "4">>, <<"s", "e", "a", "r", "c", "h", " ", "g", "o", "o", "g", "l", "e", ".", "i", "n", "t", "e", "r", "n", "a", "l", ".">>>>,
     <<<<"n", "a", "m", "e", "s", "e", "r", "v", "e", "r", " ", "1", "6", "9", ".", "2", "5", "4", ".", "1", "6", "9", ".", "2", "5", "4">>>>,
     <<<<"n", "a", "m", "e", "s", "e", "r", "v", "e", "r", " ", "1", "6", "9", ".", "2", "5", "4", ".", "1", "6", "9", ".", "2", "5", "4">>, <<"s", "e", "a", "r", "c", "h", " ", "c", ".", "p", "r", "o", "j", ".", "i", "n", "t", "e", "r", "n", "a", "l">>,
       <<"o", "p", "t", "i", "o", "n", "s", " ", "n", "d", "o", "t", "s", ":", "1">>>>}

LookupRegions == {<<"u", "s", "-", "c", "e", "n", "t", "r", "a", "l", "1">>, <<"a", "s", "i", "a", "-", "e", "a", "s", "t", "1">>}
LookupNdots == {defaultNdots, 3}
LookupDomains == {defaultInternalDomain}
LookupServices == {<<"h", "e", "l", "l", "o">>, <<"m", "y", "-", "s", "v", "c">>}

\* the names of a service: alone, with a region, with region and zone
ServiceNames(domain) ==
    LookupServices
    \cup {svc \o <<".">> \o r : svc \in LookupServices, r \in DOMAIN cloudRunRegionCodes}
    \cup {svc \o <<".">> \o r \o <<".">> \o TrimDots(domain) :
             svc \in LookupServices, r \in DOMAIN cloudRunRegionCodes}

\* the name of a service of the current region, rooted: with region, zone
\* and the dot of the root
RootedNames(region, domain) ==
    {svc \o <<".">> \o region \o <<".">> \o TrimDots(domain) \o <<".">> : svc \in LookupServices}

ExternalNames == {<<"e", "x", "a", "m", "p", "l", "e", ".", "c", "o", "m">>, <<"m", "e", "t", "a", "d", "a", "t", "a", ".", "g", "o", "o", "g", "l", "e", ".", "i", "n", "t", "e", "r", "n", "a", "l">>, <<"a", ".", "b", ".", "c", ".", "e", "x", "a", "m", "p", "l", "e", ".", "c", "o", "m">>,
                  <<"e", "x", "a", "m", "p", "l", "e", ".", "c", "o", "m", ".">>}

\* the state of main on the platform once region and project hash are known
InitLookup ==
    /\ internalDomain \in LookupDomains
    /\ currentRegion \in LookupRegions
    /\ projectHash = <<"d", "p", "y", "b", "4", "d", "u", "z", "q", "q">>
    /\ hostname = <<>>
    /\ mapped = NoResult
    /\ ProxyUnused
    /\ DnsUnused
    /\ resolvFile \in OriginalFiles
    /\ \E n \in LookupNdots, v6 \in BOOLEAN :
          sup = [NoSup EXCEPT !.pc = "validated", !.flNdots = n, !.ipv6OK = v6,
                              !.posArgs = TRUE, !.userOK = TRUE,
                              !.rc = ClientConfigFromFile(resolvFile),
                              !.useNameserver = ClientConfigFromFile(resolvFile).servers[1],
                              !.onCloudRun = TRUE]
    /\ listeners = NoListeners
    /\ trace = <<"read">>
    /\ child = NoChild

NextLookup ==
    \/ HijackDNS
    \/ HijackFailed
    \/ StartProxy
    \/ StartChild
    \/ \E l \in ListenerIds : ListenerBinds(l)
    \/ \E name \in ServiceNames(internalDomain) \cup RootedNames(currentRegion, internalDomain)
                           \cup ExternalNames : Lookup(name)
    \/ Ask
    \/ Serve
    \/ Recursed
    \/ RecurseFailed
    \/ Outcome
    \/ Request

SpecLookup == InitLookup /\ [][NextLookup]_vars

---------------------------------------------------------------------------
(* main from its first line to its exit, on and off the platform.           *)

\* the resolver files main may find: the one of the platform, one of a
\* development machine, one without nameserver
MainFiles ==
    {<<<<"n", "a", "m", "e", "s", "e", "r", "v", "e", "r", " ", "1", "6", "9", ".", "2", "5", "4", ".", "1", "6", "9", ".", "2", "5", "4">>, <<"s", "e", "a", "r", "c", "h", " ", "g", "o", "o", "g", "l", "e", ".", "i", "n", "t", "e", "r", "n", "a", "l", ".">>>>,
     <<<<"n", "a", "m", "e", "s", "e", "r", "v", "e", "r", " ", "1", "0", ".", "0", ".", "0", ".", "2">>, <<"s", "e", "a", "r", "c", "h", " ", "l", "a", "n">>>>,
     <<<<"s", "e", "a", "r", "c", "h", " ", "l", "a", "n">>>>}

MainRegionFlags == {<<>>, <<"u", "s", "-", "c", "e", "n", "t", "r", "a", "l", "1">>, <<"m", "a", "r", "s", "-", "1">>}
MainHashFlags == {<<>>, <<"d", "p", "y", "b", "4", "d", "u", "z", "q", "q">>}

\* the values of CLOUD_RUN_PROJECT_HASH in the environment of main
MainHashEnvs == {<<>>, <<"e", "n", "v", "h", "a", "s", "h", "1", "2", "3">>}

\* what main finds before it reads the resolver file: PORT=80, positional
\* arguments, a resolvable user
Findings ==
    {[port80 |-> FALSE, posArgs |-> TRUE, userOK |-> TRUE],
     [port80 |-> TRUE, posArgs |-> TRUE, userOK |-> TRUE],
     [port80 |-> FALSE, posArgs |-> FALSE, userOK |-> TRUE],
     [port80 |-> FALSE, posArgs |-> TRUE, userOK |-> FALSE]}

InitMain ==
    /\ internalDomain = defaultInternalDomain
    /\ currentRegion = <<>>
    /\ projectHash = <<>>
    /\ hostname = <<>>
    /\ mapped = NoResult
    /\ ProxyUnused
    /\ DnsUnused
    /\ resolvFile \in MainFiles
    /\ \E r \in MainRegionFlags, h \in MainHashFlags, e \in MainHashEnvs, f \in Findings,
          skipDNS \in BOOLEAN, skipProxy \in BOOLEAN, v6 \in BOOLEAN :
          sup = [NoSup EXCEPT !.pc = "start", !.flNdots = defaultNdots,
                              !.flRegion = r, !.flProjectHash = h,
                              !.envProjectHash = e,
                              !.flSkipDNSServer = skipDNS,
                              !.flSkipHTTPProxyServer = skipProxy,
                              !.port80 = f.port80, !.posArgs = f.posArgs,
                              !.userOK = f.userOK, !.ipv6OK = v6]
    /\ listeners = NoListeners
    /\ trace = <<>>
    /\ child = NoChild

NextMain ==
    \/ Preflight
    \/ ReadConfig
    \/ ReadConfigFailed
    \/ Discover
    \/ HijackDNS
    \/ HijackFailed
    \/ SkipDNS
    \/ StartProxy
    \/ SkipProxy
    \/ StartChild
    \/ StartChildFailed
    \/ \E l \in ListenerIds : ListenerBinds(l)
    \/ \E l \in ListenerIds : ListenerFails(l)
    \/ \E c \in ExitCodes : ChildExits(c)
    \/ ChildKilled
    \/ WaitReturns
    \/ WaitFailed

SpecMain == InitMain /\ [][NextMain]_vars

---------------------------------------------------------------------------
(* main up to the start of the subprocess, with the lookups the sidecar     *)
(* makes for itself on the way and after.                                   *)

InitSidecar ==
    /\ internalDomain = defaultInternalDomain
    /\ currentRegion = <<>>
    /\ projectHash = <<>>
    /\ hostname = <<>>
    /\ mapped = NoResult
    /\ ProxyUnused
    /\ DnsUnused
    /\ resolvFile \in MainFiles
    /\ \E r \in MainRegionFlags, skipDNS \in BOOLEAN, v6 \in BOOLEAN,
          n \in {0, 3, defaultNdots, 12} :
          sup = [NoSup EXCEPT !.pc = "start", !.flNdots = n,
                              !.flRegion = r, !.flProjectHash = <<"d", "p", "y", "b", "4", "d", "u", "z", "q", "q">>,
                              !.flSkipDNSServer = skipDNS,
                              !.posArgs = TRUE, !.userOK = TRUE, !.ipv6OK = v6]
    /\ listeners = NoListeners
    /\ trace = <<>>
    /\ child = NoChild

NextSidecar ==
    \/ Preflight
    \/ ReadConfig
    \/ Discover
    \/ HijackDNS
    \/ SkipDNS
    \/ StartProxy
    \/ SkipProxy
    \/ StartChild
    \/ \E name \in SidecarNames : SidecarLookup(name)

SpecSidecar == InitSidecar /\ [][NextSidecar]_vars

---------------------------------------------------------------------------
(* main from the start of the subprocess on, with the signals that reach    *)
(* the process. The DNS server and the proxy are skipped by flag.           *)

SignalFiles ==
    {<<<<"n", "a", "m", "e", "s", "e", "r", "v", "e", "r", " ", "1", "6", "9", ".", "2", "5", "4", ".", "1", "6", "9", ".", "2", "5", "4">>, <<"s", "e", "a", "r", "c", "h", " ", "g", "o", "o", "g", "l", "e", ".", "i", "n", "t", "e", "r", "n", "a", "l", ".">>>>,
     <<<<"n", "a", "m", "e", "s", "e", "r", "v", "e", "r", " ", "1", "0", ".", "0", ".", "0", ".", "2">>, <<"s", "e", "a", "r", "c", "h", " ", "l", "a", "n">>>>}

InitSignals ==
    /\ internalDomain = defaultInternalDomain
    /\ hostname = <<>>
    /\ mapped = NoResult
    /\ ProxyUnused
    /\ DnsUnused
    /\ resolvFile \in SignalFiles
    /\ \E skipProxy \in BOOLEAN :
          LET rc == ClientConfigFromFile(resolvFile)
              on == rc.servers[1] = <<"1", "6", "9", ".", "2", "5", "4", ".", "1", "6", "9", ".", "2", "5", "4">>
          IN  /\ sup = [NoSup EXCEPT !.pc = "proxy", !.flNdots = defaultNdots,
                                     !.flSkipDNSServer = TRUE,
                                     !.flSkipHTTPProxyServer = skipProxy,
                                     !.posArgs = TRUE, !.userOK = TRUE,
                                     !.rc = rc, !.useNameserver = rc.servers[1],
                                     !.onCloudRun = on]
              /\ currentRegion = IF on THEN <<"u", "s", "-", "c", "e", "n", "t", "r", "a", "l", "1">> ELSE <<>>
              /\ projectHash = IF on THEN <<"d", "p", "y", "b", "4", "d", "u", "z", "q", "q">> ELSE <<>>
              /\ listeners = IF on /\ ~skipProxy
                             THEN [NoListeners EXCEPT !["proxy4"] = "starting"]
                             ELSE NoListeners
              /\ trace = IF on /\ ~skipProxy THEN <<"read", "listen-proxy">>
                         ELSE <<"read">>
    /\ child = NoChild

NextSignals ==
    \/ StartChild
    \/ StartChildFailed
    \/ \E l \in ListenerIds : ListenerBinds(l)
    \/ \E l \in ListenerIds : ListenerFails(l)
    \/ \E sig \in NotifiedSignals : SignalArrives(sig)
    \/ Forward
    \/ \E c \in ExitCodes : ChildExits(c)
    \/ ChildKilled
    \/ WaitReturns
    \/ WaitFailed

\* the goroutines of main are scheduled: the forwarder receives when the
\* channel holds a signal, and main returns from c.Wait when the subprocess
\* has ended
SpecSignals ==
    /\ InitSignals
    /\ [][NextSignals]_vars
    /\ WF_vars(Forward)
    /\ WF_vars(WaitReturns \/ WaitFailed)

---------------------------------------------------------------------------
(* Vocabulary of the claims about the Name Mapper. It reads a hostname as   *)
(* a list of labels, and the canonical host as a pattern; it uses none of   *)
(* the mapper's own definitions.                                            *)

RECURSIVE Labels(_)
\* the labels of a name: the pieces between its dots
Labels(s) ==
    IF ~ContainsDot(s) THEN <<s>>
    ELSE <<SubSeq(s, 1, FirstDot(s) - 1)>> \o Labels(SubSeq(s, FirstDot(s) + 1, Len(s)))

\* the labels of the lower-cased host, without the labels of the internal zone
\* when the host ends in them
StrippedLabels(host, domain) ==
    LET L == Labels(ToLower(host))
        Z == Labels(TrimDots(domain))
    IN  IF Len(L) > Len(Z) /\ SubSeq(L, Len(L) - Len(Z) + 1, Len(L)) = Z
        THEN SubSeq(L, 1, Len(L) - Len(Z))
        ELSE L

\* {svc}-{project_hash}-{catalog[region]}.a.run.app
CanonicalHost(svc, region, hash) ==
    svc \o <<"-">> \o hash \o <<"-">> \o cloudRunRegionCodes[region] \o <<".", "a", ".", "r", "u", "n", ".", "a", "p", "p">>

AllIn(s, chars) == \A i \in 1..Len(s) : s[i] \in chars

\* ^[a-z0-9-]+-[a-z0-9]+-[a-z]{2}\.a\.run\.app$
MatchesCanonicalPattern(s) ==
    /\ HasSuffix(s, <<".", "a", ".", "r", "u", "n", ".", "a", "p", "p">>)
    /\ LET core == SubSeq(s, 1, Len(s) - Len(<<".", "a", ".", "r", "u", "n", ".", "a", "p", "p">>))
           n == Len(core)
       IN  \E i \in 2..n : \E j \in (i + 2)..n :
               /\ core[i] = "-"
               /\ core[j] = "-"
               /\ AllIn(SubSeq(core, 1, i - 1), LowerChars \cup DigitChars \cup {"-"})
               /\ AllIn(SubSeq(core, i + 1, j - 1), LowerChars \cup DigitChars)
               /\ j + 2 = n
               /\ AllIn(SubSeq(core, j + 1, n), LowerChars)

Called == mapped # NoResult

---------------------------------------------------------------------------
(* Claims C1 - C4: the reverse proxy (checked under SpecProxy).             *)

\* the Host of an inbound request without its port
BareHost(h) ==
    IF IndexByte(h, ":") = 0 THEN h ELSE SubSeq(h, 1, IndexByte(h, ":") - 1)

\* the Name Mapper rejects the Host of request i
MapperRejects(i) ==
    ~resolveCloudRunHost(internalDomain, BareHost(reqs[i].inHost),
                         currentRegion, projectHash).ok

Arrived(i) == reqs[i].pc # "idle"

\* C1: every request handed to the upstream transport has URL scheme https
\* and carries an Authorization header.
C1_UpstreamIsHttpsWithAuthorization ==
    \A i \in ReqIds : \A k \in 1..Len(sent[i]) :
        /\ sent[i][k].scheme = "https"
        /\ sent[i][k].auth # <<>>

C1_Witness ==
    \E i \in ReqIds :
        /\ reqs[i].inAuth = <<>>
        /\ reqs[i].inHost = <<"h", "e", "l", "l", "o", ":", "8", "0", "8", "0">>
        /\ Len(sent[i]) = 1
        /\ sent[i][1].scheme = "https"

\* C2: when identityToken fails for a request, the request is answered with
\* status 500 carrying the error string and nothing is handed to the upstream
\* transport for it, also when the request brought its own Authorization
\* header.
C2_TokenFailureIs500 ==
    \A i \in ReqIds :
        reqs[i].tokenErr # "" =>
            /\ reqs[i].resp = [status |-> 500,
                               body |-> <<"failed to fetch metadata token", reqs[i].tokenErr>>]
            /\ sent[i] = <<>>

C2_Witness ==
    \E i \in ReqIds :
        /\ reqs[i].tokenErr # ""
        /\ reqs[i].inAuth # <<>>
        /\ reqs[i].resp.status = 500

\* C3: a request that arrives with a non-empty Authorization header goes
\* upstream with exactly that value.
C3_OwnAuthorizationKept ==
    \A i \in ReqIds : \A k \in 1..Len(sent[i]) :
        reqs[i].inAuth # <<>> => sent[i][k].auth = reqs[i].inAuth

C3_Witness ==
    \E i \in ReqIds :
        /\ reqs[i].inAuth # <<>>
        /\ Len(sent[i]) = 1
        /\ reqs[i].audience # <<>>

\* C4: when the Name Mapper rejects the Host of a request, nothing is handed
\* to the upstream transport for it, and it is answered with status 500 and
\* a body naming that Host.
C4_MapperErrorIs500 ==
    \A i \in ReqIds :
        (Arrived(i) /\ MapperRejects(i)) =>
            /\ sent[i] = <<>>
            /\ reqs[i].pc \in {"director", "roundtrip", "done"}
            /\ reqs[i].pc = "done" =>
                    /\ reqs[i].resp.status = 500
                    /\ reqs[i].resp.body[1] = "runsd doesn't know how to handle host"
                    /\ reqs[i].resp.body[2] = reqs[i].inHost

C4_Witness ==
    \E i \in ReqIds :
        /\ reqs[i].pc = "done"
        /\ reqs[i].inHost = <<"a", ".", "h", "e", "l", "l", "o", ".", "u", "s", "-", "c", "e", "n", "t", "r", "a", "l", "1", ":", "8", "0">>
        /\ reqs[i].resp.status = 500

---------------------------------------------------------------------------
(* Claims C5 - C8: the Name Mapper (checked under SpecMapper).              *)

\* C5: for a dot-free service name svc, a catalog region r (the current
\* region), a project hash and the configured internal zone, the mapper
\* returns the same canonical host for svc, svc.r and svc.r.zone.
C5_ThreeFormsAgree ==
    (Called /\ hostname # <<>> /\ ~ContainsDot(hostname) /\ RegionKnown(currentRegion)) =>
        /\ mapped.ok
        /\ resolveCloudRunHost(internalDomain,
                hostname \o <<".">> \o currentRegion,
                currentRegion, projectHash) = mapped
        /\ resolveCloudRunHost(internalDomain,
                hostname \o <<".">> \o currentRegion \o <<".">> \o internalDomain,
                currentRegion, projectHash) = mapped

\* C6: every host the mapper accepts is mapped to a host matching
\* ^[a-z0-9-]+-[a-z0-9]+-[a-z]{2}\.a\.run\.app$ (the claim as stated).
C6_AcceptedMatchesPattern ==
    (Called /\ mapped.ok) => MatchesCanonicalPattern(mapped.host)

\* C6 (amended): every host the mapper accepts whose lower-cased service
\* label is non-empty and made of letters, digits and hyphens is mapped,
\* under a project hash made of lower-case letters and digits, to a host
\* matching ^[a-z0-9-]+-[a-z0-9]+-[a-z]{2}\.a\.run\.app$.
C6_WellFormedMatchesPattern ==
    LET svc == Labels(ToLower(hostname))[1]
    IN  (/\ Called /\ mapped.ok
         /\ svc # <<>> /\ AllIn(svc, LowerChars \cup DigitChars \cup {"-"})
         /\ projectHash # <<>> /\ AllIn(projectHash, LowerChars \cup DigitChars))
        => MatchesCanonicalPattern(mapped.host)

C6_Witness ==
    /\ Called /\ mapped.ok
    /\ hostname = <<"A", "b", ".", "a", "s", "i", "a", "-", "e", "a", "s", "t", "1", ".", "r", "u", "n", ".", "i", "n", "t", "e", "r", "n", "a", "l">>
    /\ projectHash = <<"d", "p", "y", "b", "4", "d", "u", "z", "q", "q">>
    /\ mapped.host = <<"a", "b", "-", "d", "p", "y", "b", "4", "d", "u", "z", "q", "q", "-", "d", "e", ".", "a", ".", "r", "u", "n", ".", "a", "p", "p">>

\* C7: an accepted host is mapped to exactly
\* {svc}-{project_hash}-{catalog[region]}.a.run.app, where svc and region are
\* the lower-cased host and the current region for a dot-free host, and the
\* two labels of the (lower-cased, zone-stripped) host for a qualified one;
\* a dot-free host is an error when the current region is not in the catalog.
C7_ExactCanonicalForm ==
    LET L == StrippedLabels(hostname, internalDomain)
    IN  Called =>
            IF ~ContainsDot(hostname)
            THEN IF RegionKnown(currentRegion)
                 THEN mapped = MapOk(CanonicalHost(ToLower(hostname), currentRegion, projectHash))
                 ELSE ~mapped.ok /\ mapped.host = <<>>
            ELSE mapped.ok =>
                    /\ Len(L) = 2
                    /\ RegionKnown(L[2])
                    /\ mapped.host = CanonicalHost(L[1], L[2], projectHash)

C7_Witness ==
    /\ Called /\ mapped.ok
    /\ hostname = <<"h", "e", "l", "l", "o", ".", "a", "s", "i", "a", "-", "e", "a", "s", "t", "1", ".", "f", "o", "o", ".", "b", "a", "r">>
    /\ internalDomain = <<"f", "o", "o", ".", "b", "a", "r", ".">>
    /\ currentRegion = <<"u", "s", "-", "c", "e", "n", "t", "r", "a", "l", "1">>
    /\ mapped.host = <<"h", "e", "l", "l", "o", "-", "d", "p", "y", "b", "4", "d", "u", "z", "q", "q", "-", "d", "e", ".", "a", ".", "r", "u", "n", ".", "a", "p", "p">>

\* C8: a host that contains a dot is an error (and yields no canonical host)
\* unless, after the internal-zone suffix is removed, it has exactly one dot
\* and its second label is a region of the catalog.
C8_QualifiedHostErrors ==
    LET L == StrippedLabels(hostname, internalDomain)
    IN  (Called /\ ContainsDot(hostname) /\ ~(Len(L) = 2 /\ RegionKnown(L[2])))
            => (~mapped.ok /\ mapped.host = <<>>)

C8_Witness ==
    /\ Called /\ ~mapped.ok
    /\ hostname = <<"h", "e", "l", "l", "o", ".", "A", "b", ".", "u", "s", "-", "c", "e", "n", "t", "r", "a", "l", "1", ".", "r", "u", "n", ".", "i", "n", "t", "e", "r", "n", "a", "l">>
    /\ internalDomain = <<"r", "u", "n", ".", "i", "n", "t", "e", "r", "n", "a", "l", ".">>
    /\ RegionKnown(currentRegion)

---------------------------------------------------------------------------
(* Claims about the DNS server (SpecDNS).                                   *)

\* the question the mux routes on and the reply echoes
FirstQuestion == dnsMsg.question[1]

\* the query is for an address and its name is in the zone of the server
AddressQueryInZone ==
    /\ dnsPc \in {"serving", "exchange", "done"}
    /\ FirstQuestion.qtype \in {"A", "AAAA"}
    /\ muxMatch(dnsHijack, FirstQuestion.name) = "handleLocal"

\* C10: an A or AAAA query for a name of the internal zone whose number of
\* dots is not the configured ndots, be it smaller or larger, is answered
\* with one reply, an authoritative NXDOMAIN without answer records, and is
\* not sent upstream.
C10_WrongDotsIsNXDOMAIN ==
    (/\ AddressQueryInZone
     /\ dnsPc \in {"exchange", "done"}
     /\ CountDots(FirstQuestion.name) # dnsHijack.dots)
    => /\ dnsPc = "done"
       /\ dnsFwd = <<>>
       /\ Len(dnsReplies) = 1
       /\ dnsReplies[1].rcode = "NXDOMAIN"
       /\ dnsReplies[1].aa
       /\ dnsReplies[1].answer = <<>>
       /\ dnsReplies[1].id = dnsMsg.id

\* a name of the zone with more dots than ndots has been refused
C10_Witness ==
    /\ AddressQueryInZone
    /\ dnsPc = "done"
    /\ CountDots(FirstQuestion.name) > dnsHijack.dots
    /\ Len(dnsReplies) = 1
    /\ dnsReplies[1].rcode = "NXDOMAIN"
    /\ dnsReplies[1].aa

\* the labels of a name of the zone that stand before the zone, as the
\* query spells them
LabelsBeforeZone(name) ==
    LET n == Fqdn(name)
        z == Fqdn(dnsHijack.domain)
    IN  IF Len(n) <= Len(z) + 1 THEN <<>>
        ELSE Labels(SubSeq(n, 1, Len(n) - Len(z) - 1))

\* the name has a service label and a region label before the zone
HasRegionLabel(name) == Len(LabelsBeforeZone(name)) >= 2

\* the last label before the zone
RegionLabel(name) == LabelsBeforeZone(name)[Len(LabelsBeforeZone(name))]

\* the handler has dealt with an address query of the zone whose name has
\* ndots dots
RightDotsInZone ==
    /\ AddressQueryInZone
    /\ dnsPc \in {"exchange", "done"}
    /\ CountDots(FirstQuestion.name) = dnsHijack.dots
    /\ HasRegionLabel(FirstQuestion.name)

\* C11: an A or AAAA query for a name of the internal zone with ndots dots
\* whose region label (the last label before the zone) is not a key of the
\* region catalog is answered with one reply, an authoritative NXDOMAIN
\* without answer records, and is not sent upstream.
C11_UnknownRegionIsNXDOMAIN ==
    (RightDotsInZone /\ ~RegionKnown(RegionLabel(FirstQuestion.name)))
    => /\ dnsPc = "done"
       /\ dnsFwd = <<>>
       /\ Len(dnsReplies) = 1
       /\ dnsReplies[1].rcode = "NXDOMAIN"
       /\ dnsReplies[1].aa
       /\ dnsReplies[1].answer = <<>>

\* a name with the right number of dots and the label def in the place of
\* the region has been refused
C11_Witness ==
    /\ RightDotsInZone
    /\ RegionLabel(FirstQuestion.name) = <<"d", "e", "f">>
    /\ dnsPc = "done"
    /\ Len(dnsReplies) = 1
    /\ dnsReplies[1].rcode = "NXDOMAIN"
    /\ dnsReplies[1].aa

\* the handler has dealt with a query of one question, for an address, whose
\* name is in the zone, has ndots dots and has a region of the catalog as
\* its region label
ValidNameQuery ==
    /\ RightDotsInZone
    /\ Len(dnsMsg.question) = 1
    /\ RegionKnown(RegionLabel(FirstQuestion.name))

\* the one reply to the query is authoritative, has a success code and
\* holds nothing but loopback records of TTL 10: one A record 127.0.0.1 for
\* an A query, and for an AAAA query one AAAA record ::1 when the server
\* serves IPv6
LoopbackReply ==
    /\ dnsPc = "done"
    /\ dnsFwd = <<>>
    /\ Len(dnsReplies) = 1
    /\ dnsReplies[1].aa
    /\ dnsReplies[1].rcode = "NOERROR"
    /\ \A i \in 1..Len(dnsReplies[1].answer) :
          LET rr == dnsReplies[1].answer[i]
          IN  /\ rr.ttl = 10
              /\ rr.rrtype = "A" => rr.data = ipv4Loopback
              /\ rr.rrtype = "AAAA" => rr.data = IPv6loopback
              /\ rr.rrtype \in {"A", "AAAA"}
    /\ FirstQuestion.qtype = "A" =>
          addresses(dnsReplies[1].answer, "A") = <<ipv4Loopback>>
    /\ (FirstQuestion.qtype = "AAAA" /\ dnsHijack.serveIPv6) =>
          addresses(dnsReplies[1].answer, "AAAA") = <<IPv6loopback>>

\* C12: an A or AAAA query for a name of the internal zone with ndots dots
\* and a region of the catalog is answered authoritatively with a success
\* code; every A record is 127.0.0.1, every AAAA record is ::1, every
\* record has TTL 10; with IPv6 served, the A and the AAAA query of a host
\* lookup give 127.0.0.1 and ::1.
C12_ValidNameGetsLoopback == ValidNameQuery => LoopbackReply

\* a valid name that spells the zone in another case than the configured
\* one has been refused with NXDOMAIN
C12_CaseVariantRefused ==
    /\ ValidNameQuery
    /\ ~HasSuffix(FirstQuestion.name, <<".">> \o dnsHijack.domain)
    /\ dnsPc = "done"
    /\ Len(dnsReplies) = 1
    /\ dnsReplies[1].rcode = "NXDOMAIN"

\* C13: when the server does not serve IPv6, the two queries of a host
\* lookup of a valid internal name succeed and give the IPv4 loopback address
\* alone: the A query is answered with 127.0.0.1, the AAAA query with a
\* success code and no record at all, never with ::1 and never with NXDOMAIN.
C13_IPv4OnlyLookup ==
    (ValidNameQuery /\ ~dnsHijack.serveIPv6)
    => /\ dnsPc = "done"
       /\ Len(dnsReplies) = 1
       /\ dnsReplies[1].rcode = "NOERROR"
       /\ FirstQuestion.qtype = "A" =>
             addresses(dnsReplies[1].answer, "A") = <<ipv4Loopback>>
       /\ FirstQuestion.qtype = "AAAA" => dnsReplies[1].answer = <<>>

\* without IPv6, the AAAA query of a valid name that spells the zone in
\* another case than the configured one has been refused with NXDOMAIN
C13_CaseVariantRefused ==
    /\ ValidNameQuery
    /\ ~dnsHijack.serveIPv6
    /\ FirstQuestion.qtype = "AAAA"
    /\ ~HasSuffix(FirstQuestion.name, <<".">> \o dnsHijack.domain)
    /\ dnsPc = "done"
    /\ Len(dnsReplies) = 1
    /\ dnsReplies[1].rcode = "NXDOMAIN"

\* the handler has dealt with a query whose name is outside the zone
OutsideZoneQuery ==
    /\ dnsPc \in {"exchange", "done"}
    /\ muxMatch(dnsHijack, FirstQuestion.name) = "recurse"

\* C14: a query whose name is outside the internal zone is sent upstream as
\* it is, and when the upstream nameserver returns a response the one reply
\* to the client is that response: same response code, flags and sections.
C14_OutsideZoneIsUpstreamReply ==
    OutsideZoneQuery =>
        /\ dnsFwd = <<dnsMsg>>
        /\ dnsPc = "done" => Len(dnsUp) = 1
        /\ (dnsPc = "done" /\ ~dnsUp[1].err) => dnsReplies = <<dnsUp[1].r>>

\* the upstream's NXDOMAIN for a name outside the zone has reached the client
C14_Witness ==
    /\ OutsideZoneQuery
    /\ dnsPc = "done"
    /\ ~dnsUp[1].err
    /\ dnsUp[1].r.rcode = "NXDOMAIN"
    /\ dnsReplies = <<dnsUp[1].r>>

\* the exchange with the upstream nameserver for the query failed
ExchangeFailed ==
    /\ dnsPc = "done"
    /\ Len(dnsUp) = 1
    /\ dnsUp[1].err

\* C15: when the exchange with the upstream nameserver fails, the one reply
\* to the client has the response code SERVFAIL and the authoritative flag
\* set.
C15_ExchangeErrorIsAuthoritativeServfail ==
    ExchangeFailed =>
        /\ Len(dnsReplies) = 1
        /\ dnsReplies[1].rcode = "SERVFAIL"
        /\ dnsReplies[1].aa

\* after a failed exchange the client has a SERVFAIL that is not
\* authoritative
C15_ServfailNotAuthoritative ==
    /\ ExchangeFailed
    /\ Len(dnsReplies) = 1
    /\ dnsReplies[1].rcode = "SERVFAIL"
    /\ ~dnsReplies[1].aa

\* the handler has dealt with a query of the zone for another type than A
\* and AAAA
OtherTypeInZone ==
    /\ dnsPc \in {"exchange", "done"}
    /\ muxMatch(dnsHijack, FirstQuestion.name) = "handleLocal"
    /\ FirstQuestion.qtype \notin {"A", "AAAA"}

\* C16: a query of the internal zone whose type is neither A nor AAAA is
\* sent upstream as it is, whatever its dots and its region label; the one
\* reply to the client is the upstream's response, or a SERVFAIL when the
\* exchange failed, and never a local answer or a local NXDOMAIN.
C16_OtherTypesGoUpstream ==
    OtherTypeInZone =>
        /\ dnsFwd = <<dnsMsg>>
        /\ dnsPc = "done" =>
              /\ Len(dnsUp) = 1
              /\ Len(dnsReplies) = 1
              /\ ~dnsReplies[1].aa
              /\ IF dnsUp[1].err
                 THEN dnsReplies[1].rcode = "SERVFAIL"
                 ELSE dnsReplies[1] = dnsUp[1].r

\* an MX query for a name of the zone with the wrong number of dots has
\* got the upstream's response
C16_Witness ==
    /\ OtherTypeInZone
    /\ dnsPc = "done"
    /\ CountDots(FirstQuestion.name) # dnsHijack.dots
    /\ ~dnsUp[1].err
    /\ dnsReplies = <<dnsUp[1].r>>

---------------------------------------------------------------------------
(* Claims about the lookups of the subprocess (SpecLookup).                 *)

\* main ran with the default zone and the default ndots
DefaultZoneAndNdots ==
    /\ internalDomain = defaultInternalDomain
    /\ sup.flNdots = defaultNdots

Loopbacks == {ipv4Loopback, IPv6loopback}

\* the subprocess has finished the lookup of a name
LookedUp(names) == child.pc = "done" /\ child.name \in names

\* an exchange with the upstream nameserver failed during the lookup
UpstreamFailed == \E i \in 1..Len(child.log) : child.log[i].rcode = "SERVFAIL"

LastQuery == child.log[Len(child.log)]

\* C9: after bootstrap on the platform with the default zone and ndots, the
\* lookup of SERVICE, of SERVICE.REGION and of SERVICE.REGION.run.internal
\* through the rewritten resolver file ends with loopback addresses only (at
\* least one), answered by the DNS server itself, for every service name and
\* every region of the catalog; the lookup of a name the upstream nameserver
\* knows ends with the address the upstream nameserver gives, unless an
\* exchange with it failed.
C9_ChildResolvesThroughHijack ==
    DefaultZoneAndNdots =>
        /\ LookedUp(ServiceNames(defaultInternalDomain)) =>
              /\ child.addrs # <<>>
              /\ Range(child.addrs) \subseteq Loopbacks
              /\ ipv4Loopback \in Range(child.addrs)
              /\ LastQuery.via = "local"
        /\ (LookedUp(ExternalNames) /\ CanonicalName(child.name) \in DOMAIN UpstreamDB
             /\ ~UpstreamFailed) =>
              /\ child.addrs = <<UpstreamDB[CanonicalName(child.name)]>>
              /\ LastQuery.via = "upstream"

\* the lookup of SERVICE.REGION for a region other than the current one
\* went through two names of the search list and ended with a loopback
\* address
C9_Witness ==
    /\ DefaultZoneAndNdots
    /\ LookedUp({svc \o <<".">> \o r : svc \in LookupServices, r \in DOMAIN cloudRunRegionCodes})
    /\ child.name = <<"m", "y", "-", "s", "v", "c", ".", "e", "u", "r", "o", "p", "e", "-", "w", "e", "s", "t", "1">>
    /\ child.idx = 2
    /\ child.names[2] = <<"m", "y", "-", "s", "v", "c", ".", "e", "u", "r", "o", "p", "e", "-", "w", "e", "s", "t", "1", ".", "r", "u", "n", ".", "i", "n", "t", "e", "r", "n", "a", "l", ".">>
    /\ Range(child.addrs) \subseteq Loopbacks
    /\ child.addrs # <<>>

\* main has rewritten the resolver file
Hijacked == "write" \in Range(trace)

\* C17: the resolver file written at bootstrap is: the line nameserver
\* 127.0.0.1; the line nameserver ::1 exactly when IPv6 is available; one
\* search line with {region}.{zone}, {zone} and then the search domains of
\* the previous file in their order; one line options ndots:{ndots}; and no
\* other line.
C17_ResolverFileContents ==
    Hijacked =>
        LET n == Len(resolvFile)
        IN  /\ n = IF sup.ipv6OK THEN 4 ELSE 3
            /\ resolvFile[1] = <<"n", "a", "m", "e", "s", "e", "r", "v", "e", "r", " ", "1", "2", "7", ".", "0", ".", "0", ".", "1">>
            /\ sup.ipv6OK => resolvFile[2] = <<"n", "a", "m", "e", "s", "e", "r", "v", "e", "r", " ", ":", ":", "1">>
            /\ HasPrefix(resolvFile[n - 1], <<"s", "e", "a", "r", "c", "h", " ">>)
            /\ Fields(resolvFile[n - 1]) =
                  <<<<"s", "e", "a", "r", "c", "h">>, currentRegion \o <<".">> \o internalDomain, internalDomain>>
                  \o sup.rc.search
            /\ HasPrefix(resolvFile[n], <<"o", "p", "t", "i", "o", "n", "s", " ", "n", "d", "o", "t", "s", ":">>)
            /\ IsNumber(SubSeq(resolvFile[n], 15, Len(resolvFile[n])))
            /\ Atoi(SubSeq(resolvFile[n], 15, Len(resolvFile[n]))) = sup.flNdots

\* with IPv6 and the previous search domain google.internal. the file
\* written in us-central1 has these four lines
C17_Witness ==
    /\ Hijacked
    /\ sup.rc.search = <<<<"g", "o", "o", "g", "l", "e", ".", "i", "n", "t", "e", "r", "n", "a", "l", ".">>>>
    /\ resolvFile = <<<<"n", "a", "m", "e", "s", "e", "r", "v", "e", "r", " ", "1", "2", "7", ".", "0", ".", "0", ".", "1">>,
                      <<"n", "a", "m", "e", "s", "e", "r", "v", "e", "r", " ", ":", ":", "1">>,
                      <<"s", "e", "a", "r", "c", "h", " ", "u", "s", "-", "c", "e", "n", "t", "r", "a", "l", "1", ".", "r", "u", "n", ".", "i", "n", "t", "e", "r", "n", "a", "l", ".", " ", "r", "u", "n", ".", "i", "n", "t", "e", "r", "n", "a", "l", ".", " ", "g", "o", "o", "g", "l", "e", ".", "i", "n", "t", "e", "r", "n", "a", "l", ".">>,
                      <<"o", "p", "t", "i", "o", "n", "s", " ", "n", "d", "o", "t", "s", ":", "4">>>>

---------------------------------------------------------------------------
(* Claims about main (SpecMain).                                            *)

\* the places of an event in the trace of main
At(e) == {i \in 1..Len(trace) : trace[i] = e}

\* main has started the subprocess
Launched == At("start") # {}

NotOnPlatform ==
    /\ sup.flRegion = <<>>
    /\ sup.useNameserver \notin {<<>>, <<"1", "6", "9", ".", "2", "5", "4", ".", "1", "6", "9", ".", "2", "5", "4">>}

\* main has waited for the subprocess, which had exited with a code
WaitedForExit == At("waited") # {} /\ child.ended = "exit"

\* C19: when main is not on the platform (no region flag, an upstream
\* nameserver other than 169.254.169.254) it starts no DNS listener and no
\* proxy listener, it does not change the resolver file, it goes on to
\* start the subprocess (it ends before only when the start fails), and it
\* ends with the exit code of the subprocess.
C19_OffPlatformIsNoOp ==
    /\ [](NotOnPlatform =>
            /\ listeners = NoListeners
            /\ dnsHijack = NoServer
            /\ At("write") = {} /\ At("listen-dns") = {} /\ At("listen-proxy") = {}
            /\ ClientConfigFromFile(resolvFile) = sup.rc
            /\ (sup.pc = "exited" /\ ~Launched) => sup.exitCode = 1
            /\ (sup.pc = "exited" /\ WaitedForExit) => sup.exitCode = child.code)
    /\ [][NotOnPlatform => resolvFile' = resolvFile]_vars

\* off the platform the subprocess was started, exited with 2, and main
\* ended with 2, the resolver file being the one of the development machine
C19_Witness ==
    /\ NotOnPlatform
    /\ sup.pc = "exited"
    /\ WaitedForExit
    /\ child.code = 2
    /\ sup.exitCode = 2
    /\ trace = <<"read", "start", "waited">>
    /\ resolvFile = <<<<"n", "a", "m", "e", "s", "e", "r", "v", "e", "r", " ", "1", "0", ".", "0", ".", "0", ".", "2">>, <<"s", "e", "a", "r", "c", "h", " ", "l", "a", "n">>>>

\* C20: when the subprocess exits with a code c, 0 included, and main's
\* wait returns it, main ends with exactly the exit code c; when the wait
\* returns an error that is not a proper exit, main ends with a fatal error
\* (exit code 1).
C20_ExitCodePropagated ==
    sup.pc = "exited" =>
        /\ WaitedForExit => sup.exitCode = child.code
        /\ At("wait failed") # {} => sup.exitCode = 1

\* the subprocess exited with 255 on the platform and main ended with 255
\* after its wait
C20_Witness ==
    /\ sup.pc = "exited"
    /\ sup.onCloudRun
    /\ WaitedForExit
    /\ child.code = 255
    /\ sup.exitCode = 255
    /\ \A l \in ListenerIds : listeners[l] # "failed"

\* the subprocess runs and main waits for it
ChildRunning == sup.pc = "waiting" /\ child.pc # "ended"

\* the k-th signal reached the supervisor while the subprocess was running
ReceivedWhileRunning(k) == Len(sup.signals) >= k /\ sup.signals[k].running

\* the subprocess was sent the k-th signal, as the signal it was
Delivered(k) ==
    /\ Len(sup.signals) >= k
    /\ \E j \in 1..Len(child.signals) :
          child.signals[j] = [n |-> k, sig |-> sup.signals[k].sig]

\* C21: every interrupt or terminate signal that reaches the supervisor while
\* the subprocess runs is in the end sent to the subprocess as that signal,
\* the first one and every later one - unless the subprocess or the
\* supervisor ends first
C21_EverySignalForwarded ==
    \A k \in 1..MaxSignals :
        (ReceivedWhileRunning(k) /\ ChildRunning) ~> (Delivered(k) \/ ~ChildRunning)

\* C21: the subprocess runs, the forwarder has returned, and a signal that
\* came while the subprocess ran waits on the channel
C21_LaterSignalStuck ==
    /\ ChildRunning
    /\ sup.forwarder = "done"
    /\ Len(sup.sigCh) > 0
    /\ ReceivedWhileRunning(sup.sigCh[1].n)
    /\ ~Delivered(sup.sigCh[1].n)

\* C21: the first signal that the channel takes while the subprocess runs is
\* sent to the subprocess as that signal, unless the subprocess or the
\* supervisor ends first
C21_FirstSignalForwarded ==
    (ChildRunning /\ sup.forwarder = "receiving" /\ Len(sup.sigCh) > 0)
        ~> (Delivered(1) \/ ~ChildRunning)

\* what main checks before it starts anything: no PORT=80, positional
\* arguments, a resolver file that was read and an upstream nameserver, and
\* on the platform a region of the catalog and a project hash
ConfigValid ==
    /\ ~sup.port80
    /\ sup.posArgs
    /\ At("read") # {}
    /\ sup.useNameserver # <<>>
    /\ sup.onCloudRun => (RegionKnown(currentRegion) /\ projectHash # <<>>)

\* C22: with PORT=80 or without positional arguments main does not get past
\* its first checks; whenever a listener was started or the subprocess
\* launched, every check had passed; a process that ended with a check
\* failed ended non-zero, with no listener started and no subprocess; and no
\* listener is ever started with a current region outside the catalog.
C22_ConfigErrorsEndBeforeListeners ==
    /\ (sup.port80 \/ ~sup.posArgs) => sup.pc \in {"start", "exited"}
    /\ (listeners # NoListeners \/ Launched \/ child.pc # "off") => ConfigValid
    /\ (sup.pc = "exited" /\ ~ConfigValid) =>
          /\ sup.exitCode # 0
          /\ listeners = NoListeners
          /\ ~Launched
          /\ child.pc = "off"
    /\ \A l \in ListenerIds : listeners[l] # "none" => RegionKnown(currentRegion)

\* on the platform the metadata server named a region outside the catalog,
\* and main ended with 1 before any listener and before the subprocess
C22_Witness ==
    /\ sup.pc = "exited"
    /\ sup.exitCode = 1
    /\ sup.onCloudRun
    /\ sup.flRegion = <<>>
    /\ currentRegion = <<"m", "a", "r", "s", "-", "1">>
    /\ listeners = NoListeners
    /\ trace = <<"read">>
    /\ child.pc = "off"

\* no listener has failed
NoListenerFailed == \A l \in ListenerIds : listeners[l] # "failed"

\* C23: the process ends with the exit code of the subprocess, or with 1
\* when it ends on an error of its own before the subprocess is launched
\* (configuration, discovery of region or project hash, user, write of the
\* resolver file, start of the subprocess).
C23_ChildCodeOrOne ==
    sup.pc = "exited" =>
        /\ WaitedForExit => sup.exitCode = child.code
        /\ (~Launched /\ NoListenerFailed) => sup.exitCode = 1

\* main could not write the resolver file and ended with 255, before the
\* subprocess and with no listener failed
C23_WriteFailureEndsWith255 ==
    /\ sup.pc = "exited"
    /\ sup.exitCode = 255
    /\ ~Launched
    /\ NoListenerFailed
    /\ At("listen-dns") # {}
    /\ At("write") = {}
    /\ ClientConfigFromFile(resolvFile) = sup.rc

\* C23: the same, the failed write of the resolver file left aside
C23_ChildCodeOrOneButWrite ==
    sup.pc = "exited" =>
        /\ WaitedForExit => sup.exitCode = child.code
        /\ (~Launched /\ NoListenerFailed /\ At("listen-dns") = {}) => sup.exitCode = 1
        /\ (~Launched /\ NoListenerFailed /\ At("write") # {}) => sup.exitCode = 1

\* the listeners main is to start, by its flags and the stack of the host
EnabledListeners ==
       (IF sup.onCloudRun /\ ~sup.flSkipDNSServer
        THEN {"dns-udp4", "dns-tcp4"}
             \cup (IF sup.ipv6OK THEN {"dns-udp6", "dns-tcp6"} ELSE {})
        ELSE {})
    \cup (IF sup.onCloudRun /\ ~sup.flSkipHTTPProxyServer
          THEN {"proxy4"} \cup (IF sup.ipv6OK THEN {"proxy6"} ELSE {})
          ELSE {})

\* C24: the subprocess is launched only after every enabled DNS listener is
\* bound, the resolver file is rewritten and every enabled proxy listener is
\* bound: once it is launched no enabled listener is still on its way to
\* its address.
C24_ChildAfterListenersBound ==
    Launched =>
        /\ \A l \in EnabledListeners : listeners[l] \in {"bound", "failed"}
        /\ (sup.onCloudRun /\ ~sup.flSkipDNSServer) =>
               \A w \in At("write"), c \in At("start") : w < c

\* the subprocess runs with a resolver file that names 127.0.0.1 while the
\* DNS listener on 127.0.0.1 and the proxy listener are not yet bound
C24_ChildBeforeListenersBound ==
    /\ sup.pc = "waiting"
    /\ child.pc = "idle"
    /\ trace = <<"read", "listen-dns", "write", "listen-proxy", "start">>
    /\ resolvFile[1] = <<"n", "a", "m", "e", "s", "e", "r", "v", "e", "r", " ", "1", "2", "7", ".", "0", ".", "0", ".", "1">>
    /\ listeners["dns-udp4"] = "starting"
    /\ listeners["proxy4"] = "starting"

\* C24: main starts the DNS listeners, writes the resolver file, starts the
\* proxy listeners and launches the subprocess in this order
C24_StepsBegunInOrder ==
    /\ \A a \in At("listen-dns"), b \in At("write") : a < b
    /\ \A a \in At("write"), b \in At("listen-proxy") : a < b
    /\ \A a \in At("listen-dns") \cup At("write") \cup At("listen-proxy"),
          b \in At("start") : a < b
    /\ Launched => \A l \in EnabledListeners : listeners[l] # "none"

\* C25: when an enabled listener (DNS on udp or tcp, the proxy, on 127.0.0.1
\* or ::1) cannot bind or stops serving with an error, the process ends
\* with a status other than 0: while the supervisor runs, launched
\* subprocess or not, none of its listeners has failed, and each enabled
\* listener whose start main has passed is there.
C25_ListenerFailureEndsProcess ==
    /\ (\E l \in ListenerIds : listeners[l] = "failed") =>
            (sup.pc = "exited" /\ sup.exitCode # 0)
    /\ (sup.pc = "waiting") =>
            \A l \in EnabledListeners : listeners[l] \in {"starting", "bound"}

\* the subprocess runs, the IPv6 proxy listener has failed, and the process
\* has ended with 255 without a wait for the subprocess
C25_Witness ==
    /\ sup.pc = "exited"
    /\ sup.exitCode = 255
    /\ Launched
    /\ At("waited") = {}
    /\ child.pc = "idle"
    /\ listeners["proxy6"] = "failed"
    /\ listeners["dns-udp4"] = "bound"

\* main is past its checks
PastChecks == sup.pc \in {"validated", "dns", "proxy", "waiting"}

\* C26: on the platform, without the gcp_project_hash flag and with a
\* non-empty CLOUD_RUN_PROJECT_HASH in the environment, the project hash of
\* the canonical hostnames is the value of the environment, and the admin
\* API is not asked.
C26_EnvProjectHashUsed ==
    (sup.onCloudRun /\ sup.flProjectHash = <<>> /\ sup.envProjectHash # <<>>) =>
        /\ ~sup.askedAdmin
        /\ PastChecks => projectHash = sup.envProjectHash

\* with CLOUD_RUN_PROJECT_HASH set and no flag, main asked the admin API and
\* goes on with the hash it answered
C26_AdminHashUsedDespiteEnv ==
    /\ PastChecks
    /\ sup.onCloudRun
    /\ sup.flProjectHash = <<>>
    /\ sup.envProjectHash = <<"e", "n", "v", "h", "a", "s", "h", "1", "2", "3">>
    /\ sup.askedAdmin
    /\ projectHash = <<"d", "p", "y", "b", "4", "d", "u", "z", "q", "q">>

\* C26: the flag, when given, is the project hash and the admin API is not
\* asked
C26_FlagProjectHashUsed ==
    (PastChecks /\ sup.flProjectHash # <<>>) =>
        (projectHash = sup.flProjectHash /\ ~sup.askedAdmin)

---------------------------------------------------------------------------
(* Claims about the steps of one proxy request (SpecProxy).                 *)

\* the Director has rewritten request i: the scheme is https, and URL host
\* and Host are what the Name Mapper makes of the inbound Host
Rewritten(i) ==
    /\ reqs[i].pc \notin {"idle", "director"}
    /\ ~MapperRejects(i)
    /\ reqs[i].scheme = "https"
    /\ reqs[i].host = resolveCloudRunHost(internalDomain, BareHost(reqs[i].inHost),
                                          currentRegion, projectHash).host
    /\ reqs[i].urlHost = reqs[i].host

\* a token was asked for request i
TokenAsked(i) == reqs[i].audience # <<>>

\* the token for request i was fetched without error
TokenFetched(i) == TokenAsked(i) /\ reqs[i].tokenErr = "" /\ reqs[i].pc # "token"

\* the response of the upstream, or the 502 for its error, is on its way to
\* the client of request i
Streamed(i) ==
    /\ reqs[i].pc = "done"
    /\ reqs[i].resp.status \in UpstreamStatuses \cup {502}

\* C27: in one proxy request the steps come in the order rewrite, token
\* fetch, upstream dispatch, response: a token is asked for in a step only
\* when the host was rewritten before it, a request is dispatched in a step
\* only when the token is fetched by then, and the response of the upstream
\* goes to the client only when the request was dispatched before.
C27_StepsInOrder ==
    [][\A i \in ReqIds :
          /\ (~TokenAsked(i) /\ TokenAsked(i)') => Rewritten(i)
          /\ (Len(sent'[i]) > Len(sent[i])) =>
                 (Rewritten(i) /\ TokenFetched(i)' /\ ~Streamed(i))
          /\ (~Streamed(i) /\ Streamed(i)') =>
                 (Len(sent[i]) > 0 /\ TokenFetched(i)) ]_vars

\* a request for hello:8080 went through all four steps, with the token
\* from the metadata server
C27_Witness ==
    \E i \in ReqIds :
        /\ reqs[i].inHost = <<"h", "e", "l", "l", "o", ":", "8", "0", "8", "0">>
        /\ envIDToken = <<>>
        /\ Rewritten(i)
        /\ TokenFetched(i)
        /\ Len(sent[i]) = 1
        /\ Streamed(i)
        /\ reqs[i].resp.status = 200

\* C28: for one inbound request at most one request is handed to the
\* upstream transport; when the upstream transport returned an error
\* nothing more is handed to it for that request, and the client gets 502.
C28_AtMostOneDispatch ==
    \A i \in ReqIds :
        /\ Len(sent[i]) <= 1
        /\ reqs[i].upErr =>
               /\ Len(sent[i]) = 1
               /\ reqs[i].pc = "done"
               /\ reqs[i].resp.status = 502

\* the upstream transport returned an error for a request that was handed
\* to it once, and the client got 502
C28_Witness ==
    \E i \in ReqIds :
        /\ reqs[i].upErr
        /\ Len(sent[i]) = 1
        /\ reqs[i].pc = "done"
        /\ reqs[i].resp = [status |-> 502, body |-> <<>>]

\* the canonical host of request i: what the Name Mapper makes of the Host
\* the client sent, port left out
CanonicalHostOf(i) ==
    resolveCloudRunHost(internalDomain, BareHost(reqs[i].inHost),
                        currentRegion, projectHash).host

\* the token identityToken yields for an audience
TokenFor(audience) ==
    IF envIDToken # <<>> THEN TrimSpace(envIDToken)
    ELSE TrimSpace(MetadataToken(audience))

\* C29: the token put into a proxied request is the one fetched for the
\* audience https://{canonical host}, the canonical host being the
\* rewritten host of that very request: the audience is never made of the
\* internal name the client sent, nor of the host of another request.
C29_TokenForOwnCanonicalHost ==
    \A i \in ReqIds :
        /\ TokenAsked(i) =>
               /\ reqs[i].audience = <<"h", "t", "t", "p", "s", ":", "/", "/">> \o CanonicalHostOf(i)
               /\ reqs[i].audience # <<"h", "t", "t", "p", "s", ":", "/", "/">> \o reqs[i].inHost
               /\ reqs[i].audience # <<"h", "t", "t", "p", "s", ":", "/", "/">> \o BareHost(reqs[i].inHost)
        /\ \A k \in 1..Len(sent[i]) :
               /\ sent[i][k].host = CanonicalHostOf(i)
               /\ reqs[i].inAuth = <<>> =>
                      sent[i][k].auth =
                          <<"B", "e", "a", "r", "e", "r", " ">> \o TokenFor(<<"h", "t", "t", "p", "s", ":", "/", "/">> \o CanonicalHostOf(i))

\* two requests in flight for different services, each sent upstream with
\* the token of its own canonical host
C29_Witness ==
    \E i, j \in ReqIds :
        /\ envIDToken = <<>>
        /\ reqs[i].inHost = <<"h", "e", "l", "l", "o", ":", "8", "0", "8", "0">>
        /\ reqs[j].inHost = <<"h", "e", "l", "l", "o", ".", "u", "s", "-", "c", "e", "n", "t", "r", "a", "l", "1", ".", "r", "u", "n", ".", "i", "n", "t", "e", "r", "n", "a", "l">>
        /\ reqs[i].inAuth = <<>> /\ reqs[j].inAuth = <<>>
        /\ Len(sent[i]) = 1 /\ Len(sent[j]) = 1
        /\ sent[i][1].auth = <<"B", "e", "a", "r", "e", "r", " ", "j", "w", "t", ":", "h", "t", "t", "p", "s", ":", "/", "/">> \o sent[i][1].host
        /\ sent[j][1].auth = <<"B", "e", "a", "r", "e", "r", " ", "j", "w", "t", ":", "h", "t", "t", "p", "s", ":", "/", "/">> \o sent[j][1].host
        /\ sent[i][1].auth # sent[j][1].auth

\* identityToken has returned for request i
TokenReturned(i) == TokenAsked(i) /\ reqs[i].pc # "token"

\* C30: with a non-empty CLOUD_RUN_ID_TOKEN identityToken returns the value
\* of the variable without the white space around it, whatever the
\* audience, and asks the metadata server nothing; without it identityToken
\* asks the metadata server once, for the audience it was given, and
\* returns the token of the answer, and an answer with a status other than
\* 200 is an error.
C30_EnvOverrideElseMetadata ==
    \A i \in ReqIds :
        /\ envIDToken # <<>> =>
               /\ reqs[i].metadata = <<>>
               /\ reqs[i].pc # "token"
               /\ TokenReturned(i) =>
                      /\ reqs[i].idToken = TrimSpace(envIDToken)
                      /\ AllIn(reqs[i].idToken, Range(envIDToken) \ SpaceChars)
                      /\ reqs[i].tokenErr = ""
        /\ (envIDToken = <<>> /\ TokenAsked(i)) =>
               /\ reqs[i].metadata = <<reqs[i].audience>>
               /\ (TokenReturned(i) /\ reqs[i].metaOutcome = "ok") =>
                      /\ reqs[i].idToken = MetadataToken(reqs[i].audience)
                      /\ reqs[i].tokenErr = ""
               /\ (TokenReturned(i) /\ reqs[i].metaOutcome # "ok") =>
                      /\ reqs[i].tokenErr # ""
                      /\ reqs[i].idToken = <<>>
                      /\ sent[i] = <<>>

\* with " tok " in the environment two requests for different hosts were
\* both given "tok", and the metadata server was not asked
C30_Witness ==
    \E i, j \in ReqIds :
        /\ envIDToken = <<" ", "t", "o", "k", " ">>
        /\ TokenReturned(i) /\ TokenReturned(j)
        /\ reqs[i].audience # reqs[j].audience
        /\ reqs[i].idToken = <<"t", "o", "k">> /\ reqs[j].idToken = <<"t", "o", "k">>
        /\ reqs[i].metadata = <<>> /\ reqs[j].metadata = <<>>
        /\ reqs[i].inAuth = <<>> /\ sent[i][1].auth = <<"B", "e", "a", "r", "e", "r", " ", "t", "o", "k">>

\* without the override the metadata server answered 404 for the audience
\* of the request, and identityToken returned an error
C30_WitnessNon200 ==
    \E i \in ReqIds :
        /\ envIDToken = <<>>
        /\ TokenReturned(i)
        /\ reqs[i].metaOutcome = "non200"
        /\ reqs[i].tokenErr = "metadata server responeded with code"
        /\ reqs[i].resp.status = 500

\* the Director is done with request i
Directed(i) == reqs[i].pc \notin {"idle", "director"}

\* the Host of request j is the Host of request i, a host name without
\* colon or bracket, with a port after it
SameHostWithPort(i, j) ==
    LET h  == reqs[i].inHost
        hp == reqs[j].inHost
    IN  /\ h # <<>>
        /\ AllIn(h, Range(h) \ {":", "[", "]"})
        /\ Len(hp) > Len(h) + 1
        /\ SubSeq(hp, 1, Len(h)) = h
        /\ hp[Len(h) + 1] = ":"
        /\ AllIn(SubSeq(hp, Len(h) + 2, Len(hp)), DigitChars)

\* C31: the port of the incoming Host is left out before the name is
\* mapped: a request with Host h:p is mapped and rewritten as a request with
\* Host h is - to the same scheme, URL host and Host, or refused with the
\* same status.
C31_PortStripped ==
    \A i, j \in ReqIds :
        (Directed(i) /\ Directed(j) /\ SameHostWithPort(i, j)) =>
            /\ (reqs[j].early = None) = (reqs[i].early = None)
            /\ reqs[j].early.status = reqs[i].early.status
            /\ reqs[j].scheme = reqs[i].scheme
            /\ reqs[j].urlHost = reqs[i].urlHost
            /\ reqs[i].early = None => reqs[j].host = reqs[i].host

\* hello and hello:8080 were both rewritten to the same canonical host
C31_Witness ==
    \E i, j \in ReqIds :
        /\ reqs[i].inHost = <<"h", "e", "l", "l", "o">>
        /\ reqs[j].inHost = <<"h", "e", "l", "l", "o", ":", "8", "0", "8", "0">>
        /\ Directed(i) /\ Directed(j)
        /\ currentRegion = <<"u", "s", "-", "c", "e", "n", "t", "r", "a", "l", "1">>
        /\ reqs[i].host = <<"h", "e", "l", "l", "o", "-", "d", "p", "y", "b", "4", "d", "u", "z", "q", "q", "-", "u", "c", ".", "a", ".", "r", "u", "n", ".", "a", "p", "p">>
        /\ reqs[j].host = <<"h", "e", "l", "l", "o", "-", "d", "p", "y", "b", "4", "d", "u", "z", "q", "q", "-", "u", "c", ".", "a", ".", "r", "u", "n", ".", "a", "p", "p">>

\* hello.def and hello.def:443 were both refused
C31_WitnessRefused ==
    \E i, j \in ReqIds :
        /\ reqs[i].inHost = <<"h", "e", "l", "l", "o", ".", "d", "e", "f">>
        /\ reqs[j].inHost = <<"h", "e", "l", "l", "o", ".", "d", "e", "f", ":", "4", "4", "3">>
        /\ Directed(i) /\ Directed(j)
        /\ reqs[i].early.status = 500
        /\ reqs[j].early.status = 500

\* the URL of a service in canonical form: https://, a service name, a
\* hyphen, a hash without hyphen, a hyphen, a region code of the catalog,
\* .a.run.app
CanonicalURL(url, h) ==
    /\ h # <<>>
    /\ AllIn(h, Range(h) \ {"-"})
    /\ \E r \in DOMAIN cloudRunRegionCodes :
          LET tail == <<"-">> \o h \o <<"-">> \o cloudRunRegionCodes[r] \o <<".", "a", ".", "r", "u", "n", ".", "a", "p", "p">>
          IN  /\ Len(url) > Len(<<"h", "t", "t", "p", "s", ":", "/", "/">>) + Len(tail)
              /\ SubSeq(url, 1, Len(<<"h", "t", "t", "p", "s", ":", "/", "/">>)) = <<"h", "t", "t", "p", "s", ":", "/", "/">>
              /\ SubSeq(url, Len(url) - Len(tail) + 1, Len(url)) = tail

\* C32: the extraction of the project hash inverts the canonical form - from
\* https://{svc}-{h}-{code}.a.run.app with a hash h without hyphen it yields
\* h - and for every URL it yields a hash or an error, never a failure of
\* the program.
C32_HashExtractedOrError ==
    sup.askedAdmin =>
        /\ ~sup.panicked
        /\ \A h \in {<<"d", "p", "y", "b", "4", "d", "u", "z", "q", "q">>} :
               (PastChecks /\ ~sup.answer.err /\ CanonicalURL(sup.answer.url, h)) =>
                   projectHash = h

\* the admin API answered with a service that has no URL, and the program
\* ended in a panic with status 2 before any listener
C32_PanicOnUrlWithoutHyphen ==
    /\ sup.pc = "exited"
    /\ sup.askedAdmin
    /\ sup.panicked
    /\ ~sup.answer.err
    /\ sup.answer.url = <<>>
    /\ sup.exitCode = 2
    /\ listeners = NoListeners

\* C32: from a URL in canonical form the hash is extracted as it is
C32_CanonicalFormInverted ==
    (sup.askedAdmin /\ PastChecks /\ ~sup.answer.err) =>
        \A h \in {<<"d", "p", "y", "b", "4", "d", "u", "z", "q", "q">>} :
            CanonicalURL(sup.answer.url, h) => projectHash = h

\* C32: what the Name Mapper builds with a hash without hyphen gives that
\* hash back
C32_MapperHostInverted ==
    (Called /\ mapped.ok /\ projectHash # <<>> /\ AllIn(projectHash, Range(projectHash) \ {"-"})) =>
        hashFromURL(<<"h", "t", "t", "p", "s", ":", "/", "/">> \o mapped.host) = [panic |-> FALSE, hash |-> projectHash]

\* the subprocess was given loopback addresses for the name it looked up and
\* has sent its request to the proxy with that name as Host
RequestedThroughHijack ==
    /\ child.pc = "requested"
    /\ hostname = child.name
    /\ \E i \in 1..Len(child.log) :
          child.log[i].via = "local" /\ child.log[i].rcode = "NOERROR"

\* C33: a name for which the DNS server makes a loopback answer is accepted
\* by the Name Mapper when it comes as the Host of a request, in the form
\* the subprocess used, with or without the dot at its end: a request that
\* came to the proxy through the DNS server is not refused by the mapper.
C33_ResolvedNamesAccepted ==
    RequestedThroughHijack => mapped.ok

\* the subprocess looked hello.us-central1.run.internal. up, was given
\* 127.0.0.1, and the Name Mapper refuses the name
C33_RootedNameRefused ==
    /\ RequestedThroughHijack
    /\ child.name = <<"h", "e", "l", "l", "o", ".", "u", "s", "-", "c", "e", "n", "t", "r", "a", "l", "1", ".", "r", "u", "n", ".", "i", "n", "t", "e", "r", "n", "a", "l", ".">>
    /\ ipv4Loopback \in Range(child.addrs)
    /\ ~mapped.ok

\* C33: the same for the names without the dot at the end
C33_UnrootedNamesAccepted ==
    (RequestedThroughHijack /\ child.name[Len(child.name)] # ".") =>
        /\ mapped.ok
        /\ MatchesCanonicalPattern(mapped.host)

\* C34: the queries for the names the sidecar itself looks up (metadata
\* server, canonical hosts) all go to the upstream nameserver main chose at
\* its start and none to the loopback addresses of its own DNS server,
\* before and after the resolver file is rewritten, whatever server and
\* search list the file names.
C34_OwnLookupsGoUpstream ==
    \A k \in 1..Len(sup.lookup) :
        /\ sup.lookup[k].to = sup.useNameserver
        /\ sup.lookup[k].to = sup.rc.servers[1]
        /\ sup.lookup[k].to \notin {ipv4Loopback, IPv6loopback}

\* after the resolver file was rewritten the sidecar looked metadata up: the
\* file named 127.0.0.1 and the search list of the zone, and the queries
\* went to 169.254.169.254
C34_Witness ==
    /\ Hijacked
    /\ resolvFile[1] = <<"n", "a", "m", "e", "s", "e", "r", "v", "e", "r", " ", "1", "2", "7", ".", "0", ".", "0", ".", "1">>
    /\ Len(sup.lookup) > 1
    /\ sup.lookup[1].name = <<"m", "e", "t", "a", "d", "a", "t", "a", ".", "u", "s", "-", "c", "e", "n", "t", "r", "a", "l", "1", ".", "r", "u", "n", ".", "i", "n", "t", "e", "r", "n", "a", "l", ".">>
    /\ sup.lookup[1].asked = ipv4Loopback
    /\ sup.lookup[1].to = <<"1", "6", "9", ".", "2", "5", "4", ".", "1", "6", "9", ".", "2", "5", "4">>

---------------------------------------------------------------------------
(* One reply for each query.                                               *)

\* C35: a query that a listener accepted and whose handler has returned
\* has been answered with exactly one reply, whatever the zone and ndots
\* are, and no handler writes more than one.
C35_ExactlyOneReply ==
    /\ Len(dnsReplies) <= 1
    /\ (dnsPc = "done" => Len(dnsReplies) = 1)

\* an address query for a name made of one label and the zone, with ndots
\* one more than the dots of the zone: the handler has returned and nothing
\* was written
C35_ReturnedWithoutReply ==
    /\ dnsPc = "done"
    /\ dnsReplies = <<>>
    /\ dnsFwd = <<>>
    /\ dnsHijack.domain = <<"r", "u", "n", ".", "i", "n", "t", "e", "r", "n", "a", "l", ".">>
    /\ dnsHijack.dots = 3
    /\ Len(dnsMsg.question) = 1
    /\ FirstQuestion.qtype = "A"
    /\ FirstQuestion.name = <<"a", ".", "r", "u", "n", ".", "i", "n", "t", "e", "r", "n", "a", "l", ".">>

---------------------------------------------------------------------------
(* Names of the zone stay with the server.                                 *)

\* every question of the query asks for an address of a name of the zone
AddressQuestionsInZone ==
    /\ dnsPc \in {"serving", "exchange", "done"}
    /\ \A k \in 1..Len(dnsMsg.question) :
          /\ dnsMsg.question[k].qtype \in {"A", "AAAA"}
          /\ muxMatch(dnsHijack, dnsMsg.question[k].name) = "handleLocal"

\* an A or AAAA query for a name of the zone is not sent to the upstream
\* nameserver, and whatever is written to the client was made by the server
\* itself
C36_NeverForwarded ==
    AddressQuestionsInZone =>
        /\ dnsFwd = <<>>
        /\ dnsUp = <<>>
        /\ dnsPc # "exchange"
        /\ \A k \in 1..Len(dnsReplies) :
              /\ dnsReplies[k].aa
              /\ dnsReplies[k].rcode \in {"NOERROR", "NXDOMAIN"}

\* C36: an A or AAAA query for a name of the internal zone is never sent to
\* the upstream nameserver; it is always decided by the server itself, with
\* a reply that is a local answer or an NXDOMAIN.
C36_DecidedLocally ==
    AddressQuestionsInZone =>
        /\ dnsFwd = <<>>
        /\ dnsUp = <<>>
        /\ dnsPc # "exchange"
        /\ dnsPc = "done" =>
              /\ Len(dnsReplies) = 1
              /\ dnsReplies[1].aa
              /\ dnsReplies[1].rcode \in {"NOERROR", "NXDOMAIN"}

\* an AAAA query for a name of one label before the zone foo.bar., with
\* ndots 3: nothing went upstream, and the handler returned with neither an
\* answer nor an NXDOMAIN
C36_NeitherAnswerNorNXDOMAIN ==
    /\ AddressQuestionsInZone
    /\ dnsPc = "done"
    /\ dnsHijack.domain = <<"f", "o", "o", ".", "b", "a", "r", ".">>
    /\ dnsHijack.dots = 3
    /\ dnsMsg.question = <<[name |-> <<"a", ".", "f", "o", "o", ".", "b", "a", "r", ".">>, qtype |-> "AAAA"]>>
    /\ dnsFwd = <<>>
    /\ dnsReplies = <<>>

---------------------------------------------------------------------------
(* One ndots for the server and for the resolver file.                     *)

\* the options lines of the resolver file that set ndots
NdotsLines == SelectSeq(resolvFile, LAMBDA l : HasPrefix(l, <<"o", "p", "t", "i", "o", "n", "s", " ", "n", "d", "o", "t", "s", ":">>))

\* the number an options line sets ndots to
WrittenNdots(line) == Atoi(SubSeq(line, 15, Len(line)))

\* C37: once main has started the DNS server and rewritten the resolver
\* file, the file has one options line that sets ndots, and the number it
\* spells is the number of dots the DNS server compares names with, for
\* every value of the ndots flag.
C37_ServerAndFileNdotsEqual ==
    Hijacked =>
        /\ Len(NdotsLines) = 1
        /\ IsNumber(SubSeq(NdotsLines[1], 15, Len(NdotsLines[1])))
        /\ WrittenNdots(NdotsLines[1]) = dnsHijack.dots
        /\ dnsHijack.dots = sup.flNdots

\* with -ndots=12 the file says options ndots:12 and the server asks for
\* 12 dots
C37_Witness ==
    /\ Hijacked
    /\ sup.flNdots = 12
    /\ dnsHijack.dots = 12
    /\ resolvFile[Len(resolvFile)] = <<"o", "p", "t", "i", "o", "n", "s", " ", "n", "d", "o", "t", "s", ":", "1", "2">>

---------------------------------------------------------------------------
(* The supervisor outlives the subprocess.                                 *)

\* a listener of the sidecar failed
SomeListenerFailed == \E l \in ListenerIds : listeners[l] = "failed"

\* C38: once the subprocess was started, the supervisor has ended only when
\* the subprocess has ended or a listener failed; while the subprocess runs
\* and every listener is well, the supervisor waits, whatever signals it
\* received and passed on.
C38_SupervisorOutlivesChild ==
    /\ (Launched /\ sup.pc = "exited") => (child.pc = "ended" \/ SomeListenerFailed)
    /\ (Launched /\ child.pc # "ended" /\ ~SomeListenerFailed) => sup.pc = "waiting"

\* the supervisor received two signals while the subprocess ran and sent
\* the first one on; the subprocess still runs and the supervisor waits
C38_Witness ==
    /\ ChildRunning
    /\ ~SomeListenerFailed
    /\ Len(sup.signals) = 2
    /\ ReceivedWhileRunning(1)
    /\ ReceivedWhileRunning(2)
    /\ Delivered(1)
    /\ sup.forwarder = "done"

\* a listener failed while the subprocess ran, and the supervisor ended
\* before the subprocess
C38_WitnessListener ==
    /\ Launched
    /\ child.pc # "ended"
    /\ SomeListenerFailed
    /\ sup.pc = "exited"

====
